---- MODULE Spec2Model ----
(***************************************************************************)
(* A model of yniverz/finanzguru-adb-api: the ADB helper (adb.py), the     *)
(* FinanzGuru client (finanzguru.py), the Sparkasse client (sparkasse.py)  *)
(* and the scheduler / HTTP wrapper (app.py).                              *)
(*                                                                         *)
(* The device is a screen (one of a small catalogue of UI snapshots) that  *)
(* every input command may change to any other screen of the catalogue.    *)
(* Client operations run as threads, each with a program counter.          *)
(***************************************************************************)
EXTENDS Integers, Sequences, FiniteSets, TLC

\* ------------------------------------------------------------------ bounds

\* Wall-clock seconds (time.time()) when the client object is constructed.
StartTime == 1700000000
\* How many times the clock is advanced in one run.
MaxTicks == 2
\* Largest max_tries a direct find_element_by_scroll call is given.
MaxTries == 2

\* ------------------------------------------------------- program constants

\* finanzguru.py:214, 60*60*30 seconds.
Cooldown == 108000
\* The window both docstrings promise: 30 minutes, in seconds.
ThirtyMinutes == 1800
\* adb.py:290, max_tries: int = 5.
DefaultMaxTries == 5
\* finanzguru.py:91, the fixed column tapped by open_widget_by_name.
WidgetTapX == 580

\* --------------------------------------------------------------- strings

UpperChars == "ABCDEFGHIJKLMNOPQRSTUVWXYZ"
LowerChars == "abcdefghijklmnopqrstuvwxyz"

\* One character of str.lower().
LowerChar(c) ==
    IF \E k \in 1..26 : SubSeq(UpperChars, k, k) = c
    THEN LET k == CHOOSE k \in 1..26 : SubSeq(UpperChars, k, k) = c
         IN  SubSeq(LowerChars, k, k)
    ELSE c

RECURSIVE Lower(_)
\* str.lower()
Lower(s) ==
    IF Len(s) = 0 THEN ""
    ELSE LowerChar(SubSeq(s, 1, 1)) \o Lower(SubSeq(s, 2, Len(s)))

\* Python's `t in s` for strings.
Contains(t, s) ==
    \E k \in 1..(Len(s) - Len(t) + 1) : SubSeq(s, k, k + Len(t) - 1) = t

RECURSIVE SplitFrom(_, _, _)
\* str.split(" ") of s from position k on, with cur the word being read.
SplitFrom(s, k, cur) ==
    IF k > Len(s) THEN <<cur>>
    ELSE IF SubSeq(s, k, k) = " "
         THEN <<cur>> \o SplitFrom(s, k + 1, "")
         ELSE SplitFrom(s, k + 1, cur \o SubSeq(s, k, k))

\* text.split(" ")
Split(s) == SplitFrom(s, 1, "")

RECURSIVE SplitOn(_, _, _, _)
\* str.split(sep) of s from position k on, with cur the part being read.
SplitOn(s, sep, k, cur) ==
    IF k > Len(s) THEN <<cur>>
    ELSE IF k + Len(sep) - 1 <= Len(s) /\ SubSeq(s, k, k + Len(sep) - 1) = sep
         THEN <<cur>> \o SplitOn(s, sep, k + Len(sep), "")
         ELSE SplitOn(s, sep, k + 1, cur \o SubSeq(s, k, k))

\* s.split(sep)
SplitBy(s, sep) == SplitOn(s, sep, 1, "")

\* The decimal digit d, and a natural number in decimal.
Digit(d) == SubSeq("0123456789", d + 1, d + 1)
RECURSIVE IntText(_)
IntText(n) == IF n < 10 THEN Digit(n) ELSE IntText(n \div 10) \o Digit(n % 10)

RECURSIVE LStrip(_)
LStrip(s) ==
    IF Len(s) > 0 /\ SubSeq(s, 1, 1) = " " THEN LStrip(SubSeq(s, 2, Len(s))) ELSE s
RECURSIVE RStrip(_)
RStrip(s) ==
    IF Len(s) > 0 /\ SubSeq(s, Len(s), Len(s)) = " "
    THEN RStrip(SubSeq(s, 1, Len(s) - 1)) ELSE s
\* str.strip()
Strip(s) == LStrip(RStrip(s))

RECURSIVE Replace(_, _, _)
\* str.replace(old, new) for a one-character old.
Replace(s, old, new) ==
    IF Len(s) = 0 THEN ""
    ELSE (IF SubSeq(s, 1, 1) = old THEN new ELSE SubSeq(s, 1, 1))
         \o Replace(SubSeq(s, 2, Len(s)), old, new)

IsDigit(c) == \E k \in 1..10 : SubSeq("0123456789", k, k) = c


\* int() of a run of digits.
RECURSIVE DigitsValue(_)
DigitsValue(s) ==
    IF Len(s) = 0 THEN 0
    ELSE 10 * DigitsValue(SubSeq(s, 1, Len(s) - 1))
         + (CHOOSE d \in 0..9 : SubSeq("0123456789", d + 1, d + 1)
                                   = SubSeq(s, Len(s), Len(s)))

\* A stripped numeral without its sign.
Unsigned(t) ==
    IF Len(t) > 0 /\ SubSeq(t, 1, 1) \in {"+", "-"} THEN SubSeq(t, 2, Len(t)) ELSE t

\* u is digits with single underscores between them.
IsDigitRun(u) ==
    /\ Len(u) > 0
    /\ \A k \in 1..Len(u) : SubSeq(u, k, k) = "_" \/ IsDigit(SubSeq(u, k, k))
    /\ IsDigit(SubSeq(u, 1, 1)) /\ IsDigit(SubSeq(u, Len(u), Len(u)))
    /\ ~Contains("__", u)

\* Whether int(s) accepts s: blanks around, a sign, then digits with single
\* underscores between them.
IsInt(s) == IsDigitRun(Unsigned(Strip(s)))

\* int(t) for a stripped text int() accepts.
SignedValue(t) ==
    (IF SubSeq(t, 1, 1) = "-" THEN -1 ELSE 1)
        * DigitsValue(Replace(Unsigned(t), "_", ""))

\* int(s) for a text int() accepts.
IntOf(s) == SignedValue(Strip(s))

\* text[:-1]
DropLast(s) == IF Len(s) <= 1 THEN "" ELSE SubSeq(s, 1, Len(s) - 1)

\* ------------------------------------------------------- device commands

Cmd(c, s, a) == [cmd |-> c, s |-> s, args |-> a]
Tap(x, y) == Cmd("tap", "", <<x, y>>)
Swipe(a, b, c, d) == Cmd("swipe", "", <<a, b, c, d>>)
SwipeDuration(a, b, c, d, ms) == Cmd("swipe", "", <<a, b, c, d, ms>>)
Text(w) == Cmd("text", w, <<>>)
KeyEvent(k) == Cmd("keyevent", k, <<>>)
ForceStop(pkg) == Cmd("force-stop", pkg, <<>>)
AmStart(pkg, activity) == Cmd("start", pkg \o "/" \o activity, <<>>)

RECURSIVE InputWords(_, _)
\* The loop of input_text over split_text from word k on.
InputWords(split_text, k) ==
    IF k > Len(split_text) THEN <<>>
    ELSE <<Text(split_text[k])>>
         \o (IF split_text[k] # split_text[Len(split_text)]
             THEN <<KeyEvent("KEYCODE_SPACE")>> ELSE <<>>)
         \o InputWords(split_text, k + 1)

\* Adb.input_text: the commands it sends.
InputText(text) ==
    IF Contains(" ", text) THEN InputWords(Split(text), 1) ELSE <<Text(text)>>

\* Adb.close_app
CloseApp(pkg) == <<ForceStop(pkg), KeyEvent("KEYCODE_HOME")>>
\* Adb.open_app
OpenApp(pkg, activity) == <<AmStart(pkg, activity)>>
\* Adb.click
Click(x, y) == <<Tap(x, y)>>

\* ----------------------------------------------------------------- screens

\* A node of the UI-Automator dump.
RawNode(text, desc, index, clickable, bounds) ==
    [text |-> text, desc |-> desc, index |-> index, clickable |-> clickable,
     bounds |-> bounds]
\* The bounds attribute UI-Automator writes for the rectangle b.
BoundsText(b) ==
    "[" \o IntText(b[1]) \o "," \o IntText(b[2]) \o "]["
        \o IntText(b[3]) \o "," \o IntText(b[4]) \o "]"
\* A node as UI-Automator dumps it.
Node(text, desc, index, clickable, b) ==
    RawNode(text, desc, index, clickable, BoundsText(b))
\* One box of the OCR result: text, left, top, width, height.
Box(text, l, t, w, h) == [text |-> text, left |-> l, top |-> t, width |-> w, height |-> h]

HomeMarker == "Übersicht"

\* The screens the device can show: the dump of each, in document order, and
\* what OCR reads on it.
Screens == <<
    \* 1: FinanzGuru overview, scrolled to the top.
    [tree |-> << Node("Übersicht", "", "0", FALSE, <<40, 80, 400, 160>>),
                 Node("Main Account", "", "1", FALSE, <<40, 300, 500, 361>>),
                 Node("1.234,56 €", "", "2", FALSE, <<600, 300, 1040, 360>>),
                 Node("Depot", "", "3", FALSE, <<40, 500, 500, 560>>),
                 Node("250,00 €", "", "4", FALSE, <<600, 500, 1040, 560>>),
                 Node("", "Übersicht", "0", TRUE, <<0, 1800, 270, 1920>>) >>,
     ocr  |-> << Box("Main", 40, 300, 200, 60), Box(" ", 0, 0, 5, 5) >>],
    \* 2: FinanzGuru overview, scrolled down: the marker label is off screen.
    [tree |-> << Node("Main Account Plus", "", "0", FALSE, <<40, 200, 500, 260>>),
                 Node("Depot", "", "1", FALSE, <<40, 500, 500, 560>>),
                 Node("Zur Übersicht", "", "2", TRUE, <<0, 1700, 270, 1790>>),
                 Node("Übersicht", "Übersicht", "3", TRUE, <<0, 1800, 270, 1920>>) >>,
     ocr  |-> << Box("Depot", 40, 500, 460, 60) >>],
    \* 3: the device lock / PIN screen: no FinanzGuru element at all.
    [tree |-> << Node("PIN eingeben", "", "0", FALSE, <<100, 400, 980, 480>>),
                 Node("", "", "1", TRUE, <<100, 600, 980, 700>>) >>,
     ocr  |-> << Box("PIN", 100, 400, 300, 80) >>],
    \* 4: a widget sub-screen: the account as title, no marker at index 0.
    [tree |-> << Node("Depot", "", "0", FALSE, <<40, 80, 400, 160>>),
                 Node("Übersicht", "", "1", FALSE, <<40, 200, 400, 260>>) >>,
     ocr  |-> << Box("Depot", 40, 80, 360, 80) >>],
    \* 5: Sparkasse overview.
    [tree |-> << Node("Total amount", "", "0", FALSE, <<40, 80, 600, 160>>) >>,
     ocr  |-> << Box("Total amount", 40, 80, 560, 80),
                 Box("Sender", 40, 300, 200, 61),
                 Box("Send", 40, 500, 150, 60) >>]
>>

ScreenIds == 1..Len(Screens)

\* -------------------------------------------------------- element model

\* The raw node a BasicElement refers to: ET.Element has no __eq__, so two
\* references are equal only when they are the same node of the same dump.
NoneNode == [id |-> 0, node |-> RawNode("", "", "", FALSE, "")]
NodeRef(tree, k) == [id |-> k, node |-> tree[k]]

\* @dataclass BasicElement: equality compares every field, element included.
BasicElement(text, x1, y1, x2, y2, element) ==
    [text |-> text, x1 |-> x1, y1 |-> y1, x2 |-> x2, y2 |-> y2, element |-> element]

\* The placeholder of a local that holds no element.
NoElement == BasicElement("", 0, 0, 0, 0, NoneNode)

\* `e in els` for a list.
InList(e, els) == \E k \in 1..Len(els) : els[k] = e

\* What reading the bounds attribute gave: the exception raised ("" for
\* none) and the four coordinates.
Parsed(exc, x1, y1, x2, y2) == [exc |-> exc, x1 |-> x1, y1 |-> y1, x2 |-> x2, y2 |-> y2]

\* int(bounds1.split(",")[0]), int(bounds1.split(",")[1]), with c the pieces
\* bounds1.split(","): the exception the two statements raise ("" for none).
PairExc(c) ==
    IF ~IsInt(c[1]) THEN "ValueError"
    ELSE IF Len(c) < 2 THEN "IndexError"
    ELSE IF ~IsInt(c[2]) THEN "ValueError"
    ELSE ""

\* The statements that read x1, y1, x2, y2, with n the number of pieces of
\* bounds.split("]["), c1 the pieces of the first pair, and c2 those of the
\* second, if there is one.
ParsePairs(n, exc1, c1, c2) ==
    IF exc1 # "" THEN Parsed(exc1, 0, 0, 0, 0)
    ELSE IF n < 2 THEN Parsed("IndexError", 0, 0, 0, 0)
    ELSE IF PairExc(c2) # "" THEN Parsed(PairExc(c2), 0, 0, 0, 0)
    ELSE Parsed("", IntOf(c1[1]), IntOf(c1[2]), IntOf(c2[1]), IntOf(c2[2]))

\* The same, with parts the pieces bounds.split("][").
ParseParts(parts, c1) ==
    ParsePairs(Len(parts), PairExc(c1), c1,
               IF Len(parts) < 2 THEN <<"">> ELSE SplitBy(DropLast(parts[2]), ","))

\* bounds.split("][")[0][1:].split(",")
FirstPair(parts) == SplitBy(SubSeq(parts[1], 2, Len(parts[1])), ",")

\* The statements of get_list_of_elements that read x1, y1, x2, y2 off the
\* bounds attribute.
ParseBounds(bounds) == ParseParts(SplitBy(bounds, "]["), FirstPair(SplitBy(bounds, "][")))

\* What a loop of get_list_of_elements ended with: the exception raised ("" for
\* none) and the list it filled.
Collected(exc, els) == [exc |-> exc, els |-> els]

\* BasicElement(text, x1, y1, x2, y2, element) with the coordinates read.
ElementAt(text, b, element) == BasicElement(text, b.x1, b.y1, b.x2, b.y2, element)

\* `if e not in els: els.append(e)`
AppendNew(els, e) == IF InList(e, els) THEN els ELSE Append(els, e)

\* tree[k].attrib[attr]
Attrib(node, attr) == IF attr = "text" THEN node.text ELSE node.desc

RECURSIVE CollectText(_, _, _, _)
RECURSIVE TextRound(_, _, _, _, _, _)
\* One of the two loops that fill text_els: nodes from k on, reading attribute
\* "text" (attr = "text") or "content-desc" (attr = "content-desc").
CollectText(tree, k, attr, acc) ==
    IF k > Len(tree) THEN Collected("", acc)
    ELSE TextRound(tree, k, attr, acc, Attrib(tree[k], attr),
                   ParseBounds(tree[k].bounds))

\* One round of it, for a node with label text whose bounds read as b.
TextRound(tree, k, attr, acc, text, b) ==
    IF text = "" THEN CollectText(tree, k + 1, attr, acc)
    ELSE IF b.exc # "" THEN Collected(b.exc, acc)
    ELSE CollectText(tree, k + 1, attr,
                     AppendNew(acc, ElementAt(text, b, NodeRef(tree, k))))

RECURSIVE CollectClickable(_, _, _)
RECURSIVE ClickableRound(_, _, _, _, _)
\* The loop that fills clickable_els.
CollectClickable(tree, k, acc) ==
    IF k > Len(tree) THEN Collected("", acc)
    ELSE IF ~tree[k].clickable THEN CollectClickable(tree, k + 1, acc)
    ELSE ClickableRound(tree, k, acc,
                        IF tree[k].text = "" THEN tree[k].desc ELSE tree[k].text,
                        ParseBounds(tree[k].bounds))

\* One round of it, for a clickable node.
ClickableRound(tree, k, acc, text, b) ==
    IF b.exc # "" THEN Collected(b.exc, acc)
    ELSE CollectClickable(tree, k + 1,
                          AppendNew(acc, ElementAt(text, b, NodeRef(tree, k))))

\* What get_list_of_elements ends with: the exception raised ("" for none)
\* and the two lists it returns.
Lists(texts, clickables) ==
    IF texts.exc # ""
    THEN [exc |-> texts.exc, text_els |-> <<>>, clickable_els |-> <<>>]
    ELSE IF clickables.exc # ""
    THEN [exc |-> clickables.exc, text_els |-> <<>>, clickable_els |-> <<>>]
    ELSE [exc |-> "", text_els |-> texts.els, clickable_els |-> clickables.els]

\* The second loop over text_els, after the first ended with texts.
ThenContentDesc(tree, texts) ==
    IF texts.exc # "" THEN texts
    ELSE CollectText(tree, 1, "content-desc", texts.els)

\* Adb.get_list_of_elements on a dump.
Normalized(tree) ==
    Lists(ThenContentDesc(tree, CollectText(tree, 1, "text", <<>>)),
          CollectClickable(tree, 1, <<>>))

\* <<text_els, clickable_els>>
ListPair(lists) == << lists.text_els, lists.clickable_els >>

\* Adb.get_list_of_elements: <<text_els, clickable_els>> of a dump it
\* returns for.
get_list_of_elements(tree) == ListPair(Normalized(tree))

\* Adb.get_list_of_elements on the dump of each screen.
Dumped == [sid \in ScreenIds |-> get_list_of_elements(Screens[sid].tree)]

RECURSIVE CollectOcr(_, _, _)
CollectOcr(ocr, k, acc) ==
    IF k > Len(ocr) THEN acc
    ELSE LET txt == Strip(ocr[k].text)
             x == ocr[k].left
             y == ocr[k].top
         IN  IF txt = "" THEN CollectOcr(ocr, k + 1, acc)
             ELSE CollectOcr(ocr, k + 1,
                     Append(acc, BasicElement(txt, x, y, x + ocr[k].width,
                                              y + ocr[k].height, NoneNode)))

\* Adb.screencap_text: the OCR boxes of a screenshot as elements.
screencap_text(ocr) == CollectOcr(ocr, 1, <<>>)

\* A list comprehension [e for e in els if P(e)].
Filter(els, P(_)) == SelectSeq(els, P)

\* Adb.get_elements_by_text on the screen with id sid.
get_elements_by_text(sid, text, from_screencap) ==
    IF from_screencap
    THEN LET InLower(e) == Contains(Lower(text), Lower(e.text))
         IN  Filter(screencap_text(Screens[sid].ocr), InLower)
    ELSE LET In(e) == Contains(text, e.text)
         IN  Filter(Dumped[sid][1], In)

\* The body of one round of find_element_by_scroll before the swipe: the
\* elements it would return, in the order it looks at them (the first is the
\* one returned).
FindMatches(sid, text, from_screencap) ==
    IF from_screencap
    THEN LET InLower(e) == Contains(Lower(text), Lower(e.text))
         IN  Filter(screencap_text(Screens[sid].ocr), InLower)
    ELSE LET Exact(e) == e.text = text
         IN  Filter(get_elements_by_text(sid, text, FALSE), Exact)

\* Python's round() of n/2 for n >= 0: halves go to the even neighbour.
RoundHalf(n) ==
    IF n % 2 = 0 THEN n \div 2
    ELSE IF ((n - 1) \div 2) % 2 = 0 THEN (n - 1) \div 2 ELSE (n + 1) \div 2

\* Adb.get_center_of_element
get_center_of_element(e) == << RoundHalf(e.x1 + e.x2), RoundHalf(e.y1 + e.y2) >>

\* Adb.click_element: the commands it sends.
click_element(e) ==
    LET c == get_center_of_element(e) IN Click(c[1], c[2])

\* FinanzGuruClient.is_overview on a dump.
is_overview(tree) ==
    \E k \in 1..Len(tree) : tree[k].text = HomeMarker /\ tree[k].index = "0"

\* SparkasseClient.is_overview on the OCR of a screenshot.
sparkasse_is_overview(ocr) ==
    LET els == screencap_text(ocr)
    IN  \E k \in 1..Len(els) : Contains("Total amount", els[k].text)

\* ------------------------------------------------------------------ state

VARIABLES
    screen,            \* the id of the screen the device shows
    now,               \* time.time(), in seconds
    ticks,             \* how often the clock has been advanced
    last_bank_update,  \* FinanzGuruClient.last_bank_update
    overview_button,   \* FinanzGuruClient.overview_button, once it is set
    pc,                \* where each thread is
    op,                \* the call each thread is running, with its arguments
    local,             \* each thread's local variables
    result,            \* what each thread's call returned or raised
    log,               \* the device commands each thread sent in its call
    snapshots,         \* the dumps and screenshots each thread took in its call
    homeCheck,         \* what the home check of each thread's call did
    entry,             \* what each call found when it began
    requested_at       \* per client class, when the last call that returned
                       \* True began (-1: there was none)

clientVars == << screen, now, ticks, last_bank_update, overview_button, pc, op,
                 local, result, log, snapshots, homeCheck, entry, requested_at >>

\* The state of app.py: the scheduler, the HTTP handlers and the threads that
\* /request_update starts.
VARIABLES
    request_update_done,  \* the global flag of run_server
    apc,                  \* where each thread of app.py is
    idx,                  \* the account each device-driving thread is at
    response,             \* the response each handler sent last
    force_update,         \* the parameter of AccountManager.run
    balance,              \* APIAccount.balance, by account name
    last_api_update,      \* Config.last_api_update
    pass_start            \* what the pass run is in began with

appVars == << request_update_done, apc, idx, response, force_update, balance,
              last_api_update, pass_start >>

\* The pure functions of the program, applied on their own: the function
\* applied last with its arguments, and what it returned or raised.
VARIABLES applied, value

pureVars == << applied, value >>

NoCall == [fn |-> "none"]
PureInit == applied = NoCall /\ value = NoCall

vars == << clientVars, appVars, pureVars >>

Callers == {"c1", "c2"}
\* The thread a caller's request_bank_update(block=False) starts.
Worker(p) == IF p = "c1" THEN "w1" ELSE "w2"
Workers == {Worker(p) : p \in Callers}
Threads == Callers \cup Workers

\* The time the clock may advance by in one step, in seconds.
TickSteps == {ThirtyMinutes, Cooldown - ThirtyMinutes}

\* The labels calls look for.
Names == {"Main Account", "Main", "Depot", "send"}

Op(name, text, block, down, max_tries, from_screencap) ==
    [text |-> text, from_screencap |-> from_screencap, name |-> name,
     block |-> block, down |-> down, max_tries |-> max_tries]
NoOp == Op("none", "", FALSE, TRUE, 0, FALSE)

\* FinanzGuruClient.request_bank_update(block)
RequestBankUpdate(block) == Op("request_bank_update", "", block, TRUE, 0, FALSE)
\* SparkasseClient.request_bank_update(block)
SparkasseRequestBankUpdate(block) ==
    Op("sparkasse.request_bank_update", "", block, TRUE, 0, FALSE)
\* FinanzGuruClient.open_widget_by_name(name): find_element_by_scroll(name)
OpenWidgetByName(name) ==
    Op("open_widget_by_name", name, TRUE, TRUE, DefaultMaxTries, FALSE)
\* FinanzGuruClient.get_account_current_app_balance(account_name)
GetAccountCurrentAppBalance(name) ==
    Op("get_account_current_app_balance", name, TRUE, TRUE, DefaultMaxTries, FALSE)
\* Adb.find_element_by_scroll(text, down, max_tries, from_screencap)
FindElementByScroll(text, down, max_tries, from_screencap) ==
    Op("find_element_by_scroll", text, TRUE, down, max_tries, from_screencap)

\* What a call returned or raised.
Res(kind, b, el, s) == [kind |-> kind, b |-> b, el |-> el, s |-> s]
Running == Res("running", FALSE, NoElement, "")
RetBool(b) == Res("bool", b, NoElement, "")
RetNone == Res("None", FALSE, NoElement, "")
RetElement(e) == Res("element", FALSE, e, "")
\* (amount, element): s is the text handed to float().
RetBalance(s, e) == Res("balance", FALSE, e, s)
Raise(exc) == Res("raise", FALSE, NoElement, exc)

\* A thread's locals: the loop counter i and the `element` that
\* find_element_by_scroll handed back; the clock and last_bank_update as the
\* cooldown check read them; the screen the first snapshot of
\* find_element_by_scroll showed (0: none yet).
Locals(i, element, t, last, first) ==
    [i |-> i, element |-> element, t |-> t, last |-> last, first |-> first]
NoLocals == Locals(0, Running, 0, 0, 0)

NoButton == [set |-> FALSE, el |-> NoElement]

\* The client class an operation belongs to.
ClientOf(o) ==
    IF o.name = "sparkasse.request_bank_update" THEN "sparkasse" ELSE "finanzguru"

\* What a caller's call finds when it begins: the clock, last_bank_update,
\* and when the last granted request of its client class began.
Entry(t, last, req) == [now |-> t, last |-> last, requested |-> req]
NoEntry == Entry(0, 0, -1)

ClientInit ==
    /\ screen \in ScreenIds
    /\ now = StartTime
    /\ ticks = 0
    /\ last_bank_update = 0
    /\ overview_button = NoButton
    /\ pc = [p \in Threads |-> "idle"]
    /\ op = [p \in Threads |-> NoOp]
    /\ local = [p \in Threads |-> NoLocals]
    /\ result = [p \in Threads |-> Running]
    /\ log = [p \in Threads |-> <<>>]
    /\ snapshots = [p \in Threads |-> 0]
    /\ homeCheck = [p \in Threads |-> "none"]
    /\ entry = [p \in Threads |-> NoEntry]
    /\ requested_at = [c \in {"finanzguru", "sparkasse"} |-> -1]

\* ------------------------------------------------------------- the clock

\* Time passes. The clock is read by request_bank_update only, so it is enough
\* to let it advance between calls and while a thread is at the two reads.
Tick ==
    /\ ticks < MaxTicks
    /\ \/ \A p \in Callers : pc[p] \in {"idle", "done"}
       \/ \E p \in Threads : pc[p] \in {"rbu_check", "rbu_set"}
    /\ \E d \in TickSteps : now' = now + d
    /\ ticks' = ticks + 1
    /\ UNCHANGED << screen, last_bank_update, overview_button, pc, op, local,
                    result, log, snapshots, homeCheck, entry >>
    /\ UNCHANGED requested_at
    /\ UNCHANGED appVars
    /\ UNCHANGED pureVars

\* ------------------------------------------------------- calls and returns

\* The first statement of each operation.
EntryPc(o) ==
    CASE o.name = "request_bank_update" -> "rbu_check"
      [] o.name = "sparkasse.request_bank_update" -> "srbu_entry"
      [] o.name = "open_widget_by_name" -> "sto_is_overview"
      [] o.name = "get_account_current_app_balance" -> "sto_is_overview"
      [] o.name = "find_element_by_scroll" -> "fes_loop"

\* The fields of a thread that begins call o.
Begin(p, o) ==
    /\ pc' = [pc EXCEPT ![p] = EntryPc(o)]
    /\ op' = [op EXCEPT ![p] = o]
    /\ local' = [local EXCEPT ![p] = NoLocals]
    /\ result' = [result EXCEPT ![p] = Running]
    /\ log' = [log EXCEPT ![p] = <<>>]
    /\ snapshots' = [snapshots EXCEPT ![p] = 0]
    /\ homeCheck' = [homeCheck EXCEPT ![p] = "none"]
    /\ entry' = [entry EXCEPT ![p] =
                    Entry(now, last_bank_update, requested_at[ClientOf(o)])]

\* Caller p calls o. A call that may start a thread waits for the thread of
\* its previous call to have ended.
Call(p, o) ==
    /\ pc[p] \in {"idle", "done"}
    /\ ~o.block => pc[Worker(p)] \in {"idle", "done"}
    /\ Begin(p, o)
    /\ UNCHANGED << screen, now, ticks, last_bank_update, overview_button,
                    requested_at >>
    /\ UNCHANGED appVars
    /\ UNCHANGED pureVars

\* Thread p's call ends with r.
Return(p, r) ==
    /\ pc' = [pc EXCEPT ![p] = "done"]
    /\ result' = [result EXCEPT ![p] = r]

\* threading.Thread(target=..., args=(True,)).start() by p, then `return True`.
StartThreadAndReturn(p, o) ==
    LET w == Worker(p) IN
    /\ pc' = [pc EXCEPT ![p] = "done", ![w] = EntryPc(o)]
    /\ result' = [result EXCEPT ![p] = RetBool(TRUE), ![w] = Running]
    /\ op' = [op EXCEPT ![w] = o]
    /\ local' = [local EXCEPT ![w] = NoLocals]
    /\ log' = [log EXCEPT ![w] = <<>>]
    /\ snapshots' = [snapshots EXCEPT ![w] = 0]
    /\ homeCheck' = [homeCheck EXCEPT ![w] = "none"]
    /\ UNCHANGED entry
    /\ requested_at' = [requested_at EXCEPT ![ClientOf(o)] = entry[p].now]

\* Thread p sends commands cmds to the device.
Send(p, cmds) == log' = [log EXCEPT ![p] = log[p] \o cmds]
\* Thread p takes one dump or screenshot.
Snapshot(p) == snapshots' = [snapshots EXCEPT ![p] = snapshots[p] + 1]
\* What the device shows after an input: any screen.
ScreenChanges == screen' \in ScreenIds

\* ------------------------------------ FinanzGuruClient.scroll_to_top_overview

\* config.json "device_pin", handed to FinanzGuruClient.
device_pin == "1234"
\* The app_pin handed to SparkasseClient.
app_pin == "4321"

\* FinanzGuruClient.init_app: the commands it sends.
init_app ==
    CloseApp("de.dwins.financeguru")
    \o OpenApp("de.dwins.financeguru", ".MainActivity")
    \o (IF device_pin # "" THEN InputText(device_pin) ELSE <<>>)

\* SparkasseClient.init_app: the commands it sends.
sparkasse_init_app ==
    CloseApp("com.starfinanz.smob.android.sfinanzstatus")
    \o OpenApp("com.starfinanz.smob.android.sfinanzstatus", ".LauncherActivity")
    \o InputText(app_pin)
    \o Click(400, 1400)

\* Where a thread goes on when scroll_to_top_overview returns.
AfterScrollToTop(o) ==
    IF o.name = "request_bank_update" THEN "rbu_swipe" ELSE "fes_loop"

\* scroll_to_top_overview without `self.init_app()`: it goes on to the button
\* whatever the dump shows.
StoIsOverviewUnchecked(p) ==
    /\ pc[p] = "sto_is_overview"
    /\ Snapshot(p)
    /\ pc' = [pc EXCEPT ![p] = "sto_button"]
    /\ homeCheck' = [homeCheck EXCEPT ![p] =
                        IF is_overview(Screens[screen].tree) THEN "observed"
                        ELSE homeCheck[p]]
    /\ UNCHANGED << screen, now, ticks, last_bank_update, overview_button, op,
                    local, result, log, entry >>
    /\ UNCHANGED requested_at
    /\ UNCHANGED appVars
    /\ UNCHANGED pureVars

\* `if not self.is_overview():` takes a dump and decides whether to reopen.
StoIsOverview(p) ==
    /\ pc[p] = "sto_is_overview"
    /\ Snapshot(p)
    /\ IF is_overview(Screens[screen].tree)
       THEN /\ pc' = [pc EXCEPT ![p] = "sto_button"]
            /\ homeCheck' = [homeCheck EXCEPT ![p] = "observed"]
       ELSE /\ pc' = [pc EXCEPT ![p] = "sto_init_app"]
            /\ UNCHANGED homeCheck
    /\ UNCHANGED << screen, now, ticks, last_bank_update, overview_button, op,
                    local, result, log, entry >>
    /\ UNCHANGED requested_at
    /\ UNCHANGED appVars
    /\ UNCHANGED pureVars

\* `self.init_app()`: the app is closed and reopened; what it then shows is
\* up to the device.
StoInitApp(p) ==
    /\ pc[p] = "sto_init_app"
    /\ Send(p, init_app)
    /\ ScreenChanges
    /\ homeCheck' = [homeCheck EXCEPT ![p] = "reinit"]
    /\ pc' = [pc EXCEPT ![p] = "sto_button"]
    /\ UNCHANGED << now, ticks, last_bank_update, overview_button, op, local,
                    result, snapshots, entry >>
    /\ UNCHANGED requested_at
    /\ UNCHANGED appVars
    /\ UNCHANGED pureVars

\* The clickable elements with the marker text on screen sid.
ClickableOverview(sid) ==
    LET IsClickable(e) == e.element.node.clickable
    IN  Filter(get_elements_by_text(sid, HomeMarker, FALSE), IsClickable)

\* `if not hasattr(self, "overview_button"):` looks the button up once.
StoButton(p) ==
    /\ pc[p] = "sto_button"
    /\ IF overview_button.set
       THEN /\ pc' = [pc EXCEPT ![p] = "sto_click"]
            /\ UNCHANGED << overview_button, result, snapshots >>
       ELSE LET elements == ClickableOverview(screen) IN
            /\ Snapshot(p)
            /\ IF Len(elements) = 0
               THEN /\ Return(p, Raise("Exception"))
                    /\ UNCHANGED overview_button
               ELSE /\ overview_button' = [set |-> TRUE, el |-> elements[Len(elements)]]
                    /\ pc' = [pc EXCEPT ![p] = "sto_click"]
                    /\ UNCHANGED result
    /\ UNCHANGED << screen, now, ticks, last_bank_update, op, local, log,
                    homeCheck, entry >>
    /\ UNCHANGED requested_at
    /\ UNCHANGED appVars
    /\ UNCHANGED pureVars

\* `self.adb_client.click_element(self.overview_button)`
StoClick(p) ==
    /\ pc[p] = "sto_click"
    /\ Send(p, click_element(overview_button.el))
    /\ ScreenChanges
    /\ pc' = [pc EXCEPT ![p] = AfterScrollToTop(op[p])]
    /\ UNCHANGED << now, ticks, last_bank_update, overview_button, op, local,
                    result, snapshots, homeCheck, entry >>
    /\ UNCHANGED requested_at
    /\ UNCHANGED appVars
    /\ UNCHANGED pureVars

\* ----------------------------------- FinanzGuruClient.request_bank_update

\* The check with `<=` for `<`: a call one cooldown after the last is denied.
WithinCooldownInclusive(t, last) == t - last <= Cooldown

\* `if time.time() - self.last_bank_update < 60*60*30` on the values read.
WithinCooldown(t, last) == t - last < Cooldown

\* The check of the cooldown: `return False` or go on.
RbuCheck(p) ==
    /\ pc[p] = "rbu_check"
    /\ local' = [local EXCEPT ![p] = Locals(0, Running, now, last_bank_update, 0)]
    /\ IF WithinCooldown(now, last_bank_update)
       THEN Return(p, RetBool(FALSE))
       ELSE /\ pc' = [pc EXCEPT ![p] = "rbu_set"]
            /\ UNCHANGED result
    /\ UNCHANGED << screen, now, ticks, last_bank_update, overview_button, op,
                    log, snapshots, homeCheck, entry >>
    /\ UNCHANGED requested_at
    /\ UNCHANGED appVars
    /\ UNCHANGED pureVars

\* `self.last_bank_update = time.time()`
RbuSet(p) ==
    /\ pc[p] = "rbu_set"
    /\ last_bank_update' = now
    /\ pc' = [pc EXCEPT ![p] = IF op[p].block THEN "sto_is_overview" ELSE "rbu_thread"]
    /\ UNCHANGED << screen, now, ticks, overview_button, op, local, result, log,
                    snapshots, homeCheck, entry >>
    /\ UNCHANGED requested_at
    /\ UNCHANGED appVars
    /\ UNCHANGED pureVars

\* `if not block:` starts the thread that calls request_bank_update(True).
RbuThread(p) ==
    /\ pc[p] = "rbu_thread"
    /\ StartThreadAndReturn(p, RequestBankUpdate(TRUE))
    /\ UNCHANGED << screen, now, ticks, last_bank_update, overview_button >>
    /\ UNCHANGED appVars
    /\ UNCHANGED pureVars

\* The pull-to-refresh gesture of request_bank_update.
RefreshSwipe == SwipeDuration(500, 400, 500, 1400, 500)

\* The swipe, the wait and `return True`.
RbuSwipe(p) ==
    /\ pc[p] = "rbu_swipe"
    /\ Send(p, <<RefreshSwipe>>)
    /\ ScreenChanges
    /\ Return(p, RetBool(TRUE))
    /\ requested_at' = [requested_at EXCEPT ![ClientOf(op[p])] = entry[p].now]
    /\ UNCHANGED << now, ticks, last_bank_update, overview_button, op, local,
                    snapshots, homeCheck, entry >>
    /\ UNCHANGED appVars
    /\ UNCHANGED pureVars

\* ------------------------------------ SparkasseClient.request_bank_update

\* `if not block:` starts the thread; otherwise go on to ensure_overview.
SrbuEntry(p) ==
    /\ pc[p] = "srbu_entry"
    /\ IF ~op[p].block
       THEN StartThreadAndReturn(p, SparkasseRequestBankUpdate(TRUE))
       ELSE /\ pc' = [pc EXCEPT ![p] = "ens_is_overview"]
            /\ UNCHANGED << op, local, result, log, snapshots, homeCheck, entry,
                            requested_at >>
    /\ UNCHANGED << screen, now, ticks, last_bank_update, overview_button >>
    /\ UNCHANGED appVars
    /\ UNCHANGED pureVars

\* SparkasseClient.ensure_overview: a screenshot, and init_app when the
\* overview is not on it.
EnsureOverview(p) ==
    /\ pc[p] = "ens_is_overview"
    /\ Snapshot(p)
    /\ IF sparkasse_is_overview(Screens[screen].ocr)
       THEN /\ homeCheck' = [homeCheck EXCEPT ![p] = "observed"]
            /\ UNCHANGED << screen, log >>
       ELSE /\ Send(p, sparkasse_init_app)
            /\ ScreenChanges
            /\ homeCheck' = [homeCheck EXCEPT ![p] = "reinit"]
    /\ pc' = [pc EXCEPT ![p] = "srbu_swipe"]
    /\ UNCHANGED << now, ticks, last_bank_update, overview_button, op, local,
                    result, entry >>
    /\ UNCHANGED requested_at
    /\ UNCHANGED appVars
    /\ UNCHANGED pureVars

\* The swipe, the wait and `return True`.
SrbuSwipe(p) ==
    /\ pc[p] = "srbu_swipe"
    /\ Send(p, <<RefreshSwipe>>)
    /\ ScreenChanges
    /\ Return(p, RetBool(TRUE))
    /\ requested_at' = [requested_at EXCEPT ![ClientOf(op[p])] = entry[p].now]
    /\ UNCHANGED << now, ticks, last_bank_update, overview_button, op, local,
                    snapshots, homeCheck, entry >>
    /\ UNCHANGED appVars
    /\ UNCHANGED pureVars

\* --------------------------------------------- Adb.find_element_by_scroll

\* The scroll gesture of find_element_by_scroll.
ScrollSwipe(down) ==
    IF down THEN Swipe(500, 1000, 500, 500) ELSE Swipe(500, 500, 500, 1000)

\* find_element_by_scroll hands r back to the operation that called it; first
\* is the screen its first snapshot showed.
FesReturn(p, r, first) ==
    CASE op[p].name = "find_element_by_scroll" ->
            /\ Return(p, r)
            /\ local' = [local EXCEPT ![p].first = first]
      [] op[p].name = "open_widget_by_name" ->
            /\ pc' = [pc EXCEPT ![p] = "owb_widget"]
            /\ local' = [local EXCEPT ![p].element = r, ![p].first = first]
            /\ UNCHANGED result
      [] op[p].name = "get_account_current_app_balance" ->
            /\ pc' = [pc EXCEPT ![p] = "gab_elements"]
            /\ local' = [local EXCEPT ![p].first = first]
            /\ UNCHANGED result

\* One round of `for i in range(max_tries)`: a snapshot, then either the
\* return of the element found or a swipe.
FesIter(p) ==
    /\ pc[p] = "fes_loop"
    /\ local[p].i < op[p].max_tries
    /\ Snapshot(p)
    /\ LET found == FindMatches(screen, op[p].text, op[p].from_screencap)
           first == IF local[p].i = 0 THEN screen ELSE local[p].first IN
       IF Len(found) > 0
       THEN /\ FesReturn(p, RetElement(found[1]), first)
            /\ UNCHANGED << screen, log >>
       ELSE /\ Send(p, <<ScrollSwipe(op[p].down)>>)
            /\ ScreenChanges
            /\ local' = [local EXCEPT ![p].i = local[p].i + 1, ![p].first = first]
            /\ UNCHANGED << pc, result >>
    /\ UNCHANGED << now, ticks, last_bank_update, overview_button, op, homeCheck,
                    entry >>
    /\ UNCHANGED requested_at
    /\ UNCHANGED appVars
    /\ UNCHANGED pureVars

\* The loop with one round too few: `for i in range(max_tries - 1)`.
FesExhaustedEarly(p) ==
    /\ pc[p] = "fes_loop"
    /\ local[p].i + 1 >= op[p].max_tries
    /\ FesReturn(p, RetBool(FALSE), local[p].first)
    /\ UNCHANGED << screen, now, ticks, last_bank_update, overview_button, op, log,
                    snapshots, homeCheck, entry >>
    /\ UNCHANGED requested_at
    /\ UNCHANGED appVars
    /\ UNCHANGED pureVars

\* The loop is over: `return False`.
FesExhausted(p) ==
    /\ pc[p] = "fes_loop"
    /\ local[p].i >= op[p].max_tries
    /\ FesReturn(p, RetBool(FALSE), local[p].first)
    /\ UNCHANGED << screen, now, ticks, last_bank_update, overview_button, op, log,
                    snapshots, homeCheck, entry >>
    /\ UNCHANGED requested_at
    /\ UNCHANGED appVars
    /\ UNCHANGED pureVars

\* ----------------------------------- FinanzGuruClient.open_widget_by_name

\* What open_widget_by_name does with the value r of find_element_by_scroll:
\* `widget = element.element` fails on False, which has no such attribute;
\* a widget is never equal to False, so every element found is tapped.
OpenWidgetOutcome(r) ==
    IF r.kind = "bool"
    THEN [ret |-> Raise("AttributeError"), cmds |-> <<>>]
    ELSE [ret |-> RetNone,
          cmds |-> Click(WidgetTapX, get_center_of_element(r.el)[2])]

\* The statements of open_widget_by_name after the search.
OwbWidget(p) ==
    /\ pc[p] = "owb_widget"
    /\ LET out == OpenWidgetOutcome(local[p].element) IN
       /\ Send(p, out.cmds)
       /\ Return(p, out.ret)
       /\ IF out.cmds = <<>> THEN UNCHANGED screen ELSE ScreenChanges
    /\ UNCHANGED << now, ticks, last_bank_update, overview_button, op, local,
                    snapshots, homeCheck, entry >>
    /\ UNCHANGED requested_at
    /\ UNCHANGED appVars
    /\ UNCHANGED pureVars

\* ----------------------- FinanzGuruClient.get_account_current_app_balance

\* text[:-3]
DropLastThree(s) == IF Len(s) <= 3 THEN "" ELSE SubSeq(s, 1, Len(s) - 3)

\* text[:-2]
DropLastTwo(s) == IF Len(s) <= 2 THEN "" ELSE SubSeq(s, 1, Len(s) - 2)

\* The same with the thousands separators left in.
BalanceTextWithSeparators(text) == Replace(DropLastTwo(text), ",", ".")

\* The text get_account_current_app_balance hands to float().
BalanceText(text) == Replace(Replace(DropLastTwo(text), ".", ""), ",", ".")

\* Whether float(s) accepts s: blanks around, a sign, digits with at most one
\* point and at least one digit (no exponent, inf or nan is on any screen).
IsFloat(s) ==
    LET t == Strip(s)
        u == IF Len(t) > 0 /\ SubSeq(t, 1, 1) \in {"+", "-"}
             THEN SubSeq(t, 2, Len(t)) ELSE t
        points == {k \in 1..Len(u) : SubSeq(u, k, k) = "."}
    IN  /\ \A k \in 1..Len(u) : IsDigit(SubSeq(u, k, k)) \/ k \in points
        /\ Cardinality(points) <= 1
        /\ Len(u) > Cardinality(points)

\* The index of the first element whose text is account_name, 0 for none
\* (the code's -1).
IndexOfText(elements, account_name) ==
    IF \E k \in 1..Len(elements) : elements[k].text = account_name
    THEN CHOOSE k \in 1..Len(elements) :
            /\ elements[k].text = account_name
            /\ \A j \in 1..(k - 1) : elements[j].text # account_name
    ELSE 0

\* get_account_current_app_balance returning the element the balance was read
\* from in place of the account's.
BalanceOfValueElement(elements, account_name) ==
    LET index == IndexOfText(elements, account_name)
    IN  IF index = 0 THEN RetBool(FALSE)
        ELSE IF index + 1 > Len(elements) THEN Raise("IndexError")
        ELSE LET text == BalanceText(elements[index + 1].text)
             IN  IF IsFloat(text) THEN RetBalance(text, elements[index + 1])
                 ELSE Raise("ValueError")

\* get_account_current_app_balance after the search: what it returns or
\* raises on the text elements of the dump.
BalanceOf(elements, account_name) ==
    LET index == IndexOfText(elements, account_name)
    IN  IF index = 0 THEN RetBool(FALSE)
        ELSE IF index + 1 > Len(elements) THEN Raise("IndexError")
        ELSE LET text == BalanceText(elements[index + 1].text)
             IN  IF IsFloat(text) THEN RetBalance(text, elements[index])
                 ELSE Raise("ValueError")

\* The same on the dump of screen sid.
BalanceOutcome(sid, account_name) ==
    BalanceOf(Dumped[sid][1], account_name)

RECURSIVE TenTo(_)
TenTo(n) == IF n = 0 THEN 1 ELSE 10 * TenTo(n - 1)

\* float(s) for a text float() accepts, as the decimal fraction num / den
\* the text denotes.
FloatOf(s) ==
    LET t == Strip(s)
        signed == Len(t) > 0 /\ SubSeq(t, 1, 1) \in {"+", "-"}
        u == IF signed THEN SubSeq(t, 2, Len(t)) ELSE t
        point == IF \E k \in 1..Len(u) : SubSeq(u, k, k) = "."
                 THEN CHOOSE k \in 1..Len(u) : SubSeq(u, k, k) = "."
                 ELSE Len(u) + 1
        whole == SubSeq(u, 1, point - 1)
        fraction == SubSeq(u, point + 1, Len(u))
        n == DigitsValue(whole \o fraction)
    IN  [num |-> IF signed /\ SubSeq(t, 1, 1) = "-" THEN -n ELSE n,
         den |-> TenTo(Len(fraction))]

\* The statements of get_account_current_app_balance after the search.
GabElements(p) ==
    /\ pc[p] = "gab_elements"
    /\ Snapshot(p)
    /\ Return(p, BalanceOutcome(screen, op[p].text))
    /\ UNCHANGED << screen, now, ticks, last_bank_update, overview_button, op,
                    local, log, homeCheck, entry >>
    /\ UNCHANGED requested_at
    /\ UNCHANGED appVars
    /\ UNCHANGED pureVars

\* ------------------------------------------------------------------ app.py

\* Timing.start_hour
start_hour == 22
\* What datetime.now() may show when the scheduler reads it.
Hours == {start_hour, start_hour - 1}
Minutes == {0, 30}

\* config.json "api_accounts" and the names of "virtual_accounts".
ApiAccounts == <<"Main Account", "Depot">>
VirtualAccounts == <<"Depot">>

\* The main thread, the threads that serve requests, and the threads that
\* /request_update starts.
Scheduler == "sched"
Handlers == {"h1", "h2"}
Updaters == {"u1", "u2"}
Drivers == {Scheduler} \cup Updaters
AppThreads == Drivers \cup Handlers

Routes == {"/accounts", "/request_update", "/update_running"}
\* The requests each thread of the server is sent: the second thread is there
\* for the requests that arrive while another one is handled.
RoutesOf(h) == IF h = "h1" THEN Routes ELSE {"/request_update"}

\* JSONResponse(content=..., status_code=...)
Response(status, code, accounts, last_update) ==
    [status |-> status, code |-> code, accounts |-> accounts,
     last_update |-> last_update]
NoAccounts == [a \in {} |-> ""]
NoResponse == Response("none", 0, NoAccounts, 0)
JsonStatus(status, code) == Response(status, code, NoAccounts, 0)

\* The balances and last_api_update as they were when the call of
\* update_api_account_balances that run is in began.
PassStart(b, l) == [running |-> TRUE, balance |-> b, last_api_update |-> l]
NoPass == [running |-> FALSE, balance |-> <<>>, last_api_update |-> 0]

AppInit ==
    /\ request_update_done = TRUE
    /\ apc = [t \in AppThreads |-> IF t = Scheduler THEN "run_wait" ELSE "idle"]
    /\ idx = [t \in Drivers |-> 0]
    /\ response = [h \in Handlers |-> NoResponse]
    /\ balance = [k \in 1..Len(ApiAccounts) |-> "0.0"]
    /\ last_api_update = 0
    /\ pass_start = NoPass

\* Several threads drive the device here, and each of their calls reads it
\* more than once: what a read finds is whatever the inputs of all of them
\* have left, any of ScreenIds. The steps below draw the screens they read
\* and leave `screen`, the device as one client call after the other moves
\* it, alone.

\* What the calls of app.py find on each screen: the clickable elements with
\* the marker text, whether the search finds the k-th API account's label, and
\* what get_account_current_app_balance makes of the dump.
ButtonsOn == [sid \in ScreenIds |-> ClickableOverview(sid)]
LabelOn ==
    [k \in 1..Len(ApiAccounts) |->
        [sid \in ScreenIds |-> Len(FindMatches(sid, ApiAccounts[k], FALSE)) > 0]]
BalanceOn ==
    [k \in 1..Len(ApiAccounts) |->
        [sid \in ScreenIds |-> BalanceOutcome(sid, ApiAccounts[k])]]

\* scroll_to_top_overview as one step, with screen sid at the lookup of the
\* button: it raises when no button is cached and none is on the screen.
StoRaises(sid) == ~overview_button.set /\ Len(ButtonsOn[sid]) = 0
\* The button it leaves cached.
StoCached(sid) ==
    IF overview_button.set \/ Len(ButtonsOn[sid]) = 0 THEN overview_button
    ELSE [set |-> TRUE, el |-> ButtonsOn[sid][Len(ButtonsOn[sid])]]

\* get_account_current_app_balance of the k-th API account as one step: the
\* button is looked up on screen s1; the search ends on screen s2, which is
\* the screen of the dump when the label was found.
AppBalance(k, s1, s2) ==
    IF StoRaises(s1) THEN Raise("Exception")
    ELSE IF ~LabelOn[k][s2] THEN RetBool(FALSE)
    ELSE BalanceOn[k][s2]

\* What the call may do, the device showing any screen at each of its reads.
AppBalances(k) ==
    {[ret |-> AppBalance(k, s1, s2), button |-> StoCached(s1)] :
        s1 \in ScreenIds, s2 \in ScreenIds}

\* `balance, _ = ...`: False cannot be unpacked.
Unpacked(r) == IF r.kind = "bool" THEN Raise("TypeError") ELSE r

\* An exception leaves the try block of run, or ends the update thread.
Raised(t) == IF t = Scheduler THEN "run_sleep" ELSE "upd_died"
\* update_api_account_balances has returned.
Returned(t) == IF t = Scheduler THEN "run_sleep" ELSE "upd_flag"

\* The head of the loop of run: with force_update the delay is skipped; without
\* it time_now is read once, and the loop that waits on it ends at once or not
\* at all.
WaitsFor(hour, minute) == hour # start_hour /\ minute # 0

RunWait ==
    /\ apc[Scheduler] = "run_wait"
    /\ IF force_update
       THEN /\ force_update' = FALSE
            /\ apc' = [apc EXCEPT ![Scheduler] = "run_init_app"]
       ELSE /\ UNCHANGED force_update
            /\ \E hour \in Hours, minute \in Minutes :
                  apc' = [apc EXCEPT ![Scheduler] =
                             IF WaitsFor(hour, minute) THEN "run_spin"
                             ELSE "run_init_app"]
    /\ UNCHANGED << request_update_done, idx, response, balance, last_api_update >>
    /\ UNCHANGED clientVars
    /\ UNCHANGED pass_start
    /\ UNCHANGED pureVars

\* `except KeyboardInterrupt:` ends the wait.
RunInterrupt ==
    /\ apc[Scheduler] = "run_spin"
    /\ apc' = [apc EXCEPT ![Scheduler] = "run_init_app"]
    /\ UNCHANGED << request_update_done, idx, response, force_update, balance,
                    last_api_update >>
    /\ UNCHANGED clientVars
    /\ UNCHANGED pass_start
    /\ UNCHANGED pureVars

\* `self.guru.init_app()`: the pass begins. The app is closed and reopened,
\* which sets no field of the program.
RunInitApp ==
    /\ apc[Scheduler] = "run_init_app"
    /\ apc' = [apc EXCEPT ![Scheduler] =
                  IF Len(VirtualAccounts) > 0 THEN "cv_account" ELSE "uab_request"]
    /\ idx' = [idx EXCEPT ![Scheduler] = 0]
    /\ UNCHANGED << request_update_done, response, force_update, balance,
                    last_api_update >>
    /\ UNCHANGED clientVars
    /\ UNCHANGED pass_start
    /\ UNCHANGED pureVars

\* One round of the loop of check_virtual_accounts: the balance is fetched and
\* update_virtual_account reads the account's balance off the app and may add
\* a transaction; whatever is raised is caught, and the loop goes on.
CvAccount ==
    /\ apc[Scheduler] = "cv_account"
    /\ \E fetched \in BOOLEAN, s1 \in ScreenIds :
          overview_button' = IF fetched THEN StoCached(s1) ELSE overview_button
    /\ idx' = [idx EXCEPT ![Scheduler] =
                  IF idx[Scheduler] + 1 < Len(VirtualAccounts)
                  THEN idx[Scheduler] + 1 ELSE 0]
    /\ apc' = [apc EXCEPT ![Scheduler] =
                  IF idx[Scheduler] + 1 < Len(VirtualAccounts)
                  THEN "cv_account" ELSE "uab_request"]
    /\ UNCHANGED << request_update_done, response, force_update, balance,
                    last_api_update >>
    /\ UNCHANGED << screen, now, ticks, last_bank_update, pc, op, local, result,
                    log, snapshots, homeCheck, entry, requested_at >>
    /\ UNCHANGED pass_start
    /\ UNCHANGED pureVars

\* `self.guru.request_bank_update()` in update_api_account_balances: the
\* blocking call, which does nothing within the cooldown and otherwise sets
\* last_bank_update, goes to the top of the overview and swipes.
UabRequest(t) ==
    /\ apc[t] = "uab_request"
    /\ IF WithinCooldown(now, last_bank_update)
       THEN /\ apc' = [apc EXCEPT ![t] = "uab_account"]
            /\ UNCHANGED << last_bank_update, overview_button >>
       ELSE /\ last_bank_update' = now
            /\ \E s1 \in ScreenIds :
                  /\ overview_button' = StoCached(s1)
                  /\ apc' = [apc EXCEPT ![t] =
                                IF StoRaises(s1) THEN Raised(t) ELSE "uab_account"]
    /\ idx' = [idx EXCEPT ![t] = 0]
    /\ pass_start' = IF t # Scheduler THEN pass_start
                     ELSE IF apc'[t] = Raised(t) THEN NoPass
                     ELSE PassStart(balance, last_api_update)
    /\ UNCHANGED << request_update_done, response, force_update, balance,
                    last_api_update >>
    /\ UNCHANGED << screen, now, ticks, pc, op, local, result, log, snapshots,
                    homeCheck, entry, requested_at >>
    /\ UNCHANGED pureVars

\* One round of `for account in self.data.api_accounts:`.
UabAccount(t) ==
    /\ apc[t] = "uab_account"
    /\ idx[t] < Len(ApiAccounts)
    /\ \E o \in AppBalances(idx[t] + 1) :
          LET r == Unpacked(o.ret) IN
          /\ overview_button' = o.button
          /\ IF r.kind = "raise"
             THEN /\ apc' = [apc EXCEPT ![t] = Raised(t)]
                  /\ UNCHANGED << idx, balance >>
             ELSE /\ balance' = [balance EXCEPT ![idx[t] + 1] = r.s]
                  /\ idx' = [idx EXCEPT ![t] = idx[t] + 1]
                  /\ UNCHANGED apc
    /\ pass_start' = IF t = Scheduler /\ apc'[t] = Raised(t) THEN NoPass
                     ELSE pass_start
    /\ UNCHANGED << request_update_done, response, force_update, last_api_update >>
    /\ UNCHANGED << screen, now, ticks, last_bank_update, pc, op, local, result,
                    log, snapshots, homeCheck, entry, requested_at >>
    /\ UNCHANGED pureVars

\* `self.data.last_api_update = time.time()`
UabStamp(t) ==
    /\ apc[t] = "uab_account"
    /\ idx[t] >= Len(ApiAccounts)
    /\ last_api_update' = now
    /\ apc' = [apc EXCEPT ![t] = Returned(t)]
    /\ idx' = [idx EXCEPT ![t] = 0]
    /\ pass_start' = IF t = Scheduler THEN NoPass ELSE pass_start
    /\ UNCHANGED << request_update_done, response, force_update, balance >>
    /\ UNCHANGED clientVars
    /\ UNCHANGED pureVars

\* `time.sleep(120)`, and the loop of run begins again.
RunSleep ==
    /\ apc[Scheduler] = "run_sleep"
    /\ apc' = [apc EXCEPT ![Scheduler] = "run_wait"]
    /\ UNCHANGED << request_update_done, idx, response, force_update, balance,
                    last_api_update >>
    /\ UNCHANGED clientVars
    /\ UNCHANGED pass_start
    /\ UNCHANGED pureVars

\* update(): `request_update_done = True` after update_api_account_balances.
UpdFlag(u) ==
    /\ apc[u] = "upd_flag"
    /\ request_update_done' = TRUE
    /\ apc' = [apc EXCEPT ![u] = "upd_done"]
    /\ UNCHANGED << idx, response, force_update, balance, last_api_update >>
    /\ UNCHANGED clientVars
    /\ UNCHANGED pass_start
    /\ UNCHANGED pureVars

\* The first statement of the handler of each route.
Handler(route) ==
    CASE route = "/accounts" -> "acc_read"
      [] route = "/request_update" -> "ru_check"
      [] route = "/update_running" -> "ur_read"

\* A request arrives and a thread of the server begins to handle it.
Request(h, route) ==
    /\ apc[h] = "idle"
    /\ apc' = [apc EXCEPT ![h] = Handler(route)]
    /\ response' = [response EXCEPT ![h] = NoResponse]
    /\ UNCHANGED << request_update_done, idx, force_update, balance,
                    last_api_update >>
    /\ UNCHANGED clientVars
    /\ UNCHANGED pass_start
    /\ UNCHANGED pureVars

\* Handler h responds.
Respond(h, r) ==
    /\ apc' = [apc EXCEPT ![h] = "idle"]
    /\ response' = [response EXCEPT ![h] = r]

\* get_api_accounts
GetApiAccounts(h) ==
    /\ apc[h] = "acc_read"
    /\ Respond(h, Response("accounts", 200, balance, last_api_update))
    /\ UNCHANGED << request_update_done, idx, force_update, balance,
                    last_api_update >>
    /\ UNCHANGED clientVars
    /\ UNCHANGED pass_start
    /\ UNCHANGED pureVars

\* request_update: `if request_update_done:`, and the busy response.
RuCheck(h) ==
    /\ apc[h] = "ru_check"
    /\ IF request_update_done
       THEN /\ apc' = [apc EXCEPT ![h] = "ru_set"]
            /\ UNCHANGED response
       ELSE Respond(h, JsonStatus("busy", 429))
    /\ UNCHANGED << request_update_done, idx, force_update, balance,
                    last_api_update >>
    /\ UNCHANGED clientVars
    /\ UNCHANGED pass_start
    /\ UNCHANGED pureVars

\* request_update: `request_update_done = False`
RuSet(h) ==
    /\ apc[h] = "ru_set"
    /\ request_update_done' = FALSE
    /\ apc' = [apc EXCEPT ![h] = "ru_start"]
    /\ UNCHANGED << idx, response, force_update, balance, last_api_update >>
    /\ UNCHANGED clientVars
    /\ UNCHANGED pass_start
    /\ UNCHANGED pureVars

\* The threads of update() that have ended or were never started, and the
\* one the next /request_update starts.
Ended == {u \in Updaters : apc[u] \in {"idle", "upd_done", "upd_died"}}
FreeUpdater == IF "u1" \in Ended THEN "u1" ELSE "u2"

\* request_update: the update thread is started and ok is the response.
RuStart(h) ==
    /\ apc[h] = "ru_start"
    /\ Ended # {}
    /\ \E u \in Updaters :
          /\ u = FreeUpdater
          /\ apc' = [apc EXCEPT ![h] = "idle", ![u] = "uab_request"]
          /\ idx' = [idx EXCEPT ![u] = 0]
    /\ response' = [response EXCEPT ![h] = JsonStatus("ok", 200)]
    /\ UNCHANGED << request_update_done, force_update, balance, last_api_update >>
    /\ UNCHANGED clientVars
    /\ UNCHANGED pass_start
    /\ UNCHANGED pureVars

\* update_running
UpdateRunning(h) ==
    /\ apc[h] = "ur_read"
    /\ Respond(h, JsonStatus(IF ~request_update_done THEN "busy" ELSE "ok", 200))
    /\ UNCHANGED << request_update_done, idx, force_update, balance,
                    last_api_update >>
    /\ UNCHANGED clientVars
    /\ UNCHANGED pass_start
    /\ UNCHANGED pureVars

\* ------------------------------------------------------- pure functions

\* abs()
Abs(n) == IF n < 0 THEN -n ELSE n

\* The call add_transaction(amount, name, category).
AddTransaction(amount, name, category) ==
    [amount |-> amount, name |-> name, category |-> category]

\* The dead band with `<` for `<=`.
update_account_balance_strict(amount, new_balance, threshhold) ==
    LET difference == new_balance - amount IN
    IF Abs(difference) < threshhold
    THEN [ret |-> RetBool(FALSE), transactions |-> <<>>]
    ELSE [ret |-> RetNone,
          transactions |-> << AddTransaction(difference,
                                  IF difference > 0 THEN "Gain" ELSE "Loss",
                                  IF difference < 0 THEN "Trading Verlust"
                                  ELSE "Trading Gewinn") >>]

\* FinanzGuruClient.update_account_balance once the balance is read, in
\* cents: amount is the balance read off the app, and difference is
\* round(new_balance - amount, 2). What it returns and the calls of
\* add_transaction it makes.
update_account_balance(amount, new_balance, threshhold) ==
    LET difference == new_balance - amount IN
    IF Abs(difference) <= threshhold
    THEN [ret |-> RetBool(FALSE), transactions |-> <<>>]
    ELSE [ret |-> RetNone,
          transactions |-> << AddTransaction(difference,
                                  IF difference > 0 THEN "Gain" ELSE "Loss",
                                  IF difference < 0 THEN "Trading Verlust"
                                  ELSE "Trading Gewinn") >>]

\* The balances, in cents, and the thresholds update_account_balance is
\* applied to.
Balances == {0, 1, 999, 1000, 1001, 122456, 123455, 123456, 124000, 124456,
             124457, 130000}
Thresholds == {0, 1, 1000}

ApplyUpdateAccountBalance ==
    /\ applied = NoCall
    /\ \E amount \in Balances, new_balance \in Balances, threshhold \in Thresholds :
          /\ applied' = [fn |-> "update_account_balance", amount |-> amount,
                         new_balance |-> new_balance, threshhold |-> threshhold]
          /\ value' = update_account_balance(amount, new_balance, threshhold)
    /\ UNCHANGED << clientVars, appVars >>

\* The labels the row after the account's label carries.
BalanceLabels ==
    {"1.234,56€", "1.234,56 €", "1.234,56", "0,00 €", "12,5 €", "-3,10 €",
     "1.000.000,01 €", "1,234.56 €", " €", "", "n/a"}

\* A dump of two rows: the account's label, then the label next to it.
TwoRows(first, second) ==
    << Node(first, "", "0", FALSE, <<40, 300, 500, 360>>),
       Node(second, "", "1", FALSE, <<600, 300, 1040, 360>>) >>

ApplyGetAccountCurrentAppBalance ==
    /\ applied = NoCall
    /\ \E label \in BalanceLabels :
          /\ applied' = [fn |-> "get_account_current_app_balance",
                         account_name |-> "Main Account", label |-> label]
          /\ value' = BalanceOf(
                  get_list_of_elements(TwoRows("Main Account", label))[1],
                  "Main Account")
    /\ UNCHANGED << clientVars, appVars >>

\* The amount, in cents, written with "." between the thousands and "," before
\* two decimals.
RECURSIVE Grouped(_)
Grouped(n) ==
    IF n < 10 THEN Digit(n)
    ELSE IF n < 100 THEN Digit(n \div 10) \o Digit(n % 10)
    ELSE IF n < 1000
         THEN Digit(n \div 100) \o Digit((n \div 10) % 10) \o Digit(n % 10)
    ELSE Grouped(n \div 1000) \o "."
         \o Digit((n % 1000) \div 100) \o Digit((n \div 10) % 10) \o Digit(n % 10)

Formatted(cents) ==
    Grouped(cents \div 100) \o "," \o Digit((cents % 100) \div 10) \o Digit(cents % 10)

\* The amounts, in cents, and the two-character suffixes of the round trip.
Euros == {0, 1, 9, 10, 999, 1000, 1234, 999999, 1000000, 1234567}
Cents == {0, 1, 5, 9, 10, 50, 56, 99}
Suffixes == {" €", "€ ", "EU", "  ", ",-", "00", ".5", "e3"}

\* The statements of get_account_current_app_balance between the label's
\* text and the amount.
ParseBalance(label) ==
    LET text == BalanceText(label)
    IN  IF IsFloat(text) THEN RetBalance(text, NoElement) ELSE Raise("ValueError")

ApplyParseBalance ==
    /\ applied = NoCall
    /\ \E euros \in Euros, cents \in Cents, suffix \in Suffixes :
          /\ applied' = [fn |-> "parse_balance", amount |-> 100 * euros + cents,
                         suffix |-> suffix,
                         label |-> Formatted(100 * euros + cents) \o suffix]
          /\ value' = ParseBalance(Formatted(100 * euros + cents) \o suffix)
    /\ UNCHANGED << clientVars, appVars >>

\* The raw dumps and OCR results the normalization is applied to have at most
\* MaxNodes entries.
MaxNodes == 2

\* The raw nodes of those dumps.
RawNodes ==
    {RawNode(text, desc, "0", clickable, bounds) :
        text \in {"", "A"}, desc \in {"", "A"}, clickable \in BOOLEAN,
        bounds \in {"[0,0][10,10]", "[5,5][20,20]"}}

\* The sequences of at most n entries of S.
SeqsUpTo(S, n) == UNION {[1..k -> S] : k \in 0..n}

ApplyGetListOfElements ==
    /\ applied = NoCall
    /\ \E tree \in SeqsUpTo(RawNodes, MaxNodes) :
          /\ applied' = [fn |-> "get_list_of_elements", tree |-> tree]
          /\ value' = Normalized(tree)
    /\ UNCHANGED << clientVars, appVars >>

\* The boxes of those OCR results.
RawBoxes ==
    {Box(text, l, 0, w, 10) : text \in {"", " ", "A", " A "}, l \in {0, 10}, w \in {10, 20}}

ApplyScreencapText ==
    /\ applied = NoCall
    /\ \E ocr \in SeqsUpTo(RawBoxes, MaxNodes) :
          /\ applied' = [fn |-> "screencap_text", ocr |-> ocr]
          /\ value' = [exc |-> "", elements |-> screencap_text(ocr)]
    /\ UNCHANGED << clientVars, appVars >>

\* The bounds attributes the normalization is applied to: two pairs between
\* brackets, with each piece varied.
Numbers == {"10", "220", "0", "-3", " 7", "1_0", "x", ""}
BoundsTexts ==
    {open \o a \o comma \o "20" \o mid \o "110" \o "," \o d \o close :
        open \in {"[", "(", ""}, a \in Numbers, comma \in {",", ";"},
        mid \in {"][", "]", "] ["}, d \in Numbers, close \in {"]", ")", ""}}
    \cup {"[10,20][110,220]", "[10,20]110,220]", "[10,20][110,220][5,5]",
          "[10,20,99][110,220,5]", "10,20][110,220", ""}

ApplyNormalizeBounds ==
    /\ applied = NoCall
    /\ \E bounds \in BoundsTexts :
          /\ applied' = [fn |-> "normalize_bounds", bounds |-> bounds]
          /\ value' = Normalized(<< RawNode("A", "", "0", FALSE, bounds) >>)
    /\ UNCHANGED << clientVars, appVars >>

\* int(round(x * 100)) for x >= 0 given in thousandths, x not halfway between
\* two hundredths (there the binary product decides which way round() goes).
RoundToCents(thousandths) == (thousandths + 5) \div 10

\* The same without the rounding: int(x * 100).
TruncToCents(thousandths) == thousandths \div 10

\* add_transaction with the amount cut, not rounded, to cents.
add_transaction_truncating(amount, name, category) ==
    IF amount = 0 THEN [ret |-> RetBool(FALSE), cmds |-> <<>>]
    ELSE [ret |-> RetNone,
          cmds |-> <<Tap(610, 1400)>>
                   \o (IF amount < 0 THEN <<>> ELSE <<Tap(80, 260)>>)
                   \o <<Tap(350, 260), Text(IntText(TruncToCents(Abs(amount)))),
                        Tap(350, 425)>>
                   \o InputText(name)
                   \o <<Tap(350, 630), Tap(370, 100)>>
                   \o InputText(category)
                   \o <<Tap(300, 240), Tap(350, 1460)>>]

\* add_transaction with the label typed before the amount.
add_transaction_label_first(amount, name, category) ==
    IF amount = 0 THEN [ret |-> RetBool(FALSE), cmds |-> <<>>]
    ELSE [ret |-> RetNone,
          cmds |-> <<Tap(610, 1400)>>
                   \o (IF amount < 0 THEN <<>> ELSE <<Tap(80, 260)>>)
                   \o <<Tap(350, 260)>>
                   \o InputText(name)
                   \o <<Tap(350, 425), Text(IntText(RoundToCents(Abs(amount)))),
                        Tap(350, 630), Tap(370, 100)>>
                   \o InputText(category)
                   \o <<Tap(300, 240), Tap(350, 1460)>>]

\* FinanzGuruClient.add_transaction, the amount in thousandths: what it
\* returns and the commands it sends.
add_transaction(amount, name, category) ==
    IF amount = 0 THEN [ret |-> RetBool(FALSE), cmds |-> <<>>]
    ELSE [ret |-> RetNone,
          cmds |-> <<Tap(610, 1400)>>
                   \o (IF amount < 0 THEN <<>> ELSE <<Tap(80, 260)>>)
                   \o <<Tap(350, 260), Text(IntText(RoundToCents(Abs(amount)))),
                        Tap(350, 425)>>
                   \o InputText(name)
                   \o <<Tap(350, 630), Tap(370, 100)>>
                   \o InputText(category)
                   \o <<Tap(300, 240), Tap(350, 1460)>>]

\* The amounts, in thousandths, the names and the categories add_transaction
\* is applied to.
Amounts ==
    {0, 4, -4, 6, -6, 10, -10, 994, -994, 1006, -1006, 65440, -65440,
     1234567890, -1234567890}
TransactionNames == {"Gain", "Loss", "Rent paid", "a b a"}
Categories == {"Trading Gewinn", "Trading Verlust"}

ApplyAddTransaction ==
    /\ applied = NoCall
    /\ \E amount \in Amounts, name \in TransactionNames, category \in Categories :
          /\ applied' = [fn |-> "add_transaction", amount |-> amount,
                         name |-> name, category |-> category]
          /\ value' = add_transaction(amount, name, category)
    /\ UNCHANGED << clientVars, appVars >>

\* The texts input_text is applied to.
Texts == {"Gain", "Rent paid", "Trading Gewinn", "x y z", "a b a", "a a", "b a a"}

ApplyInputText ==
    /\ applied = NoCall
    /\ \E text \in Texts :
          /\ applied' = [fn |-> "input_text", text |-> text]
          /\ value' = [ret |-> RetNone, cmds |-> InputText(text)]
    /\ UNCHANGED << clientVars, appVars >>

\* The dumps get_account_current_app_balance reads have at most MaxRows rows.
MaxRows == 4

\* The texts of those rows: account labels and amounts.
RowTexts == {"Main Account", "Depot", "1,00 €", "2,00 €"}

\* The k-th row of a dump, one below the other.
Row(text, k) == Node(text, "", IntText(k - 1), FALSE, <<40, 100 * k, 500, 100 * k + 60>>)

\* The dump whose rows carry the texts given.
RowsOf(texts) == [k \in 1..Len(texts) |-> Row(texts[k], k)]

ApplyBalanceOf ==
    /\ applied = NoCall
    /\ \E texts \in SeqsUpTo(RowTexts, MaxRows) :
          /\ applied' = [fn |-> "BalanceOf", account_name |-> "Main Account",
                         texts |-> texts]
          /\ value' = BalanceOf(get_list_of_elements(RowsOf(texts))[1],
                                "Main Account")
    /\ UNCHANGED << clientVars, appVars >>

\* ---------------------------------------------------------- specifications

\* The steps of scroll_to_top_overview.
ScrollToTopStep(p) ==
    \/ StoIsOverview(p)
    \/ StoInitApp(p)
    \/ StoButton(p)
    \/ StoClick(p)

\* The steps of the blocking request_bank_update of FinanzGuruClient.
BankUpdateStep(p) ==
    \/ RbuCheck(p)
    \/ RbuSet(p)
    \/ RbuSwipe(p)

\* The steps of find_element_by_scroll and of the operations built on it.
LocatorStep(p) ==
    \/ FesIter(p)
    \/ FesExhausted(p)
    \/ OwbWidget(p)
    \/ GabElements(p)

\* The steps of SparkasseClient.request_bank_update.
SparkasseStep(p) ==
    \/ SrbuEntry(p)
    \/ EnsureOverview(p)
    \/ SrbuSwipe(p)

\* The calls that drive the FinanzGuru screen from one thread.
NavOps ==
    {RequestBankUpdate(TRUE)}
    \cup {OpenWidgetByName(n) : n \in Names}
    \cup {GetAccountCurrentAppBalance(n) : n \in Names}
    \cup {FindElementByScroll(n, d, m, f) :
            n \in Names, d \in BOOLEAN, m \in 0..MaxTries, f \in BOOLEAN}

\* The calls of request_bank_update, of both clients.
UpdateOps ==
    {RequestBankUpdate(b) : b \in BOOLEAN}
    \cup {SparkasseRequestBankUpdate(b) : b \in BOOLEAN}

\* The clients alone: app.py is not running.
Init == ClientInit /\ AppInit /\ force_update = FALSE /\ PureInit

\* Spec: one thread makes one navigation call after the other, within one
\* cooldown window.
NavCall == \E o \in NavOps : Call("c1", o)

Next ==
    \/ NavCall
    \/ ScrollToTopStep("c1")
    \/ BankUpdateStep("c1")
    \/ LocatorStep("c1")

Spec == Init /\ [][Next]_vars

\* SpecSeq: one caller makes one request_bank_update call after the other
\* while time passes; the next call begins when the last one, and the thread
\* it started, have ended.
SeqCall ==
    /\ pc["w1"] \in {"idle", "done"}
    /\ \E o \in UpdateOps : Call("c1", o)

NextSeq ==
    \/ SeqCall
    \/ Tick
    \/ \E p \in {"c1", "w1"} :
          \/ ScrollToTopStep(p)
          \/ BankUpdateStep(p)
          \/ RbuThread(p)
          \/ SparkasseStep(p)

SpecSeq == Init /\ [][NextSeq]_vars

\* SpecGate: two callers call FinanzGuruClient.request_bank_update at the
\* same time, again and again, within one cooldown window: the clock does
\* not advance by as much as a tick of SpecSeq.
GateCall == \E p \in Callers, b \in BOOLEAN : Call(p, RequestBankUpdate(b))

NextGate ==
    \/ GateCall
    \/ \E p \in Threads :
          \/ ScrollToTopStep(p)
          \/ BankUpdateStep(p)
          \/ RbuThread(p)

SpecGate == Init /\ [][NextGate]_vars

\* SpecApp: app.py. The main thread runs AccountManager.run while two threads
\* of the server handle requests and the threads they start run update().
InitApp ==
    /\ ClientInit /\ screen = 1
    /\ AppInit /\ force_update \in BOOLEAN
    /\ PureInit

SchedulerStep ==
    \/ RunWait
    \/ RunInterrupt
    \/ RunInitApp
    \/ CvAccount
    \/ RunSleep

HandlerStep(h) ==
    \/ \E route \in RoutesOf(h) : Request(h, route)
    \/ GetApiAccounts(h)
    \/ RuCheck(h)
    \/ RuSet(h)
    \/ RuStart(h)
    \/ UpdateRunning(h)

NextApp ==
    \/ SchedulerStep
    \/ \E t \in Drivers : UabRequest(t) \/ UabAccount(t) \/ UabStamp(t)
    \/ \E u \in Updaters : UpdFlag(u)
    \/ \E h \in Handlers : HandlerStep(h)

SpecApp == InitApp /\ [][NextApp]_vars

\* SpecSched: AccountManager.run alone, with no request served. The thread
\* goes on whenever it can; nothing makes a KeyboardInterrupt arrive.
PassStep ==
    \/ UabRequest(Scheduler)
    \/ UabAccount(Scheduler)
    \/ UabStamp(Scheduler)

NextSched ==
    \/ SchedulerStep
    \/ PassStep
    \/ Tick

RunGoesOn ==
    /\ WF_vars(RunWait)
    /\ WF_vars(RunInitApp)
    /\ WF_vars(CvAccount)
    /\ WF_vars(PassStep)
    /\ WF_vars(RunSleep)

SpecSched == InitApp /\ [][NextSched]_vars /\ RunGoesOn

\* SpecPure: the pure functions of the program, each applied to arguments
\* drawn from a bounded set.
NextPure ==
    \/ ApplyUpdateAccountBalance
    \/ ApplyGetAccountCurrentAppBalance
    \/ ApplyParseBalance
    \/ ApplyGetListOfElements
    \/ ApplyScreencapText
    \/ ApplyNormalizeBounds
    \/ ApplyAddTransaction
    \/ ApplyInputText
    \/ ApplyBalanceOf

InitPure == Init /\ screen = 1

SpecPure == InitPure /\ [][NextPure]_vars

\* ------------------------------------------------------------------ claims

\* Thread p has ended a call of FinanzGuruClient.request_bank_update.
EndedBankUpdate(p) == pc[p] = "done" /\ op[p].name = "request_bank_update"

\* A grant was due when caller p's call began.
DueAtEntry(p) == entry[p].now - entry[p].last >= Cooldown

\* C1: of two callers of request_bank_update that both began when a grant was
\* due, within one cooldown window, exactly one is granted (returns True) and
\* the other is denied (returns False).
C1_ExactlyOneGranted ==
    ( /\ EndedBankUpdate("c1") /\ EndedBankUpdate("c2")
      /\ DueAtEntry("c1") /\ DueAtEntry("c2")
      /\ entry["c1"].now - entry["c2"].now < Cooldown
      /\ entry["c2"].now - entry["c1"].now < Cooldown )
    => \/ result["c1"] = RetBool(TRUE) /\ result["c2"] = RetBool(FALSE)
       \/ result["c1"] = RetBool(FALSE) /\ result["c2"] = RetBool(TRUE)

\* Thread p's call of request_bank_update returns or raises in this step.
ReturnsFromBankUpdate(p) ==
    /\ pc[p] # "done"
    /\ pc'[p] = "done"
    /\ op[p].name = "request_bank_update"

\* What holds of every call of request_bank_update, however it ends: False is
\* returned exactly when the clock minus last_bank_update, as the call read
\* them, is below the cooldown; a denied call leaves last_bank_update alone and
\* sends nothing to the device; any other call has set last_bank_update to the
\* clock of that moment.
GateDiscipline(p) ==
    /\ ReturnsFromBankUpdate(p) =>
          /\ (result'[p] = RetBool(FALSE))
                <=> (local'[p].t - local'[p].last < Cooldown)
          /\ result'[p] = RetBool(FALSE) =>
                /\ last_bank_update' = local'[p].last
                /\ log'[p] = <<>>
                /\ snapshots'[p] = 0
          /\ result'[p] # RetBool(FALSE) =>
                /\ local'[p].t <= last_bank_update'
                /\ last_bank_update' <= now'
    /\ (pc[p] = "rbu_set" /\ pc'[p] # "rbu_set") => last_bank_update' = now'

\* C2, as stated: in every sequence of sequential calls a call returns True
\* if and only if now minus last_bank_update is at least the cooldown; a granted
\* call sets last_bank_update to the current time, a denied call leaves it
\* unchanged and issues no device action.
C2_GrantedIffCooldownOver ==
    [][\A p \in {"c1", "w1"} :
          /\ GateDiscipline(p)
          /\ ReturnsFromBankUpdate(p) =>
                ((result'[p] = RetBool(TRUE))
                    <=> (local'[p].t - local'[p].last >= Cooldown))
      ]_clientVars

\* C2, amended: in every sequence of sequential calls a call returns False if
\* and only if now minus last_bank_update is below the cooldown; every other
\* call sets last_bank_update to the current time and then returns True, or
\* raises the exception of scroll_to_top_overview; a denied call leaves
\* last_bank_update unchanged and issues no device action.
C2_DeniedIffWithinCooldown ==
    [][\A p \in {"c1", "w1"} :
          /\ GateDiscipline(p)
          /\ ReturnsFromBankUpdate(p) =>
                ((local'[p].t - local'[p].last >= Cooldown)
                    => result'[p] \in {RetBool(TRUE), Raise("Exception")})
      ]_clientVars

\* C2's case: a call made exactly one cooldown after the one before it has
\* been granted, and has swiped.
C2_Witness ==
    /\ EndedBankUpdate("c1")
    /\ result["c1"] = RetBool(TRUE)
    /\ local["c1"].last > 0
    /\ local["c1"].t - local["c1"].last = Cooldown
    /\ log["c1"] # <<>>

\* Caller p has ended a call of request_bank_update, of either client.
EndedAnyBankUpdate(p) ==
    /\ pc[p] = "done"
    /\ op[p].name \in {"request_bank_update", "sparkasse.request_bank_update"}

\* An update of the same client was requested, and granted, less than 30
\* minutes before caller p's call began.
RequestedInLast30Minutes(p) ==
    /\ entry[p].requested >= 0
    /\ entry[p].now - entry[p].requested < ThirtyMinutes

\* C3: request_bank_update, of FinanzGuruClient and of SparkasseClient, returns
\* False exactly when an update was already requested within the last 30
\* minutes (1800 seconds).
C3_DeniedIffWithin30Minutes ==
    EndedAnyBankUpdate("c1") =>
        ((result["c1"] = RetBool(FALSE)) <=> RequestedInLast30Minutes("c1"))

\* The refresh swipes among commands cmds.
RefreshSwipes(cmds) == {k \in 1..Len(cmds) : cmds[k] = RefreshSwipe}

\* C4: when request_bank_update(block=False) has returned True and the thread
\* it started has ended, that thread has checked the home screen and sent the
\* refresh swipe exactly once.
C4_AsyncUpdatePerformed ==
    \A p \in Callers :
        ( /\ EndedBankUpdate(p)
          /\ ~op[p].block
          /\ result[p] = RetBool(TRUE)
          /\ pc[Worker(p)] = "done" )
        => /\ homeCheck[Worker(p)] # "none"
           /\ Cardinality(RefreshSwipes(log[Worker(p)])) = 1

\* The scheduler's pass is in flight: init_app has been sent and the try
\* block of run has not ended.
PassInFlight == apc[Scheduler] \in {"cv_account", "uab_request", "uab_account"}

\* The update thread u is in flight: it was started and
\* update_api_account_balances has not returned or raised.
UpdateInFlight(u) == apc[u] \in {"uab_request", "uab_account"}

\* The threads that are driving the device.
Driving ==
    {t \in Drivers : IF t = Scheduler THEN PassInFlight ELSE UpdateInFlight(t)}

\* C5: at no time do two threads drive the device: while the scheduler's pass
\* is in flight no update thread of /request_update is, and so none is
\* started; while an update thread is in flight the scheduler's pass is not,
\* and no second update thread is.
C5_OneDriverAtATime == Cardinality(Driving) <= 1

\* Thread p runs, or has ended, a direct call of find_element_by_scroll.
DirectSearch(p) == op[p].name = "find_element_by_scroll"

\* The scroll swipes among commands cmds.
ScrollSwipes(cmds) ==
    {k \in 1..Len(cmds) : cmds[k] \in {ScrollSwipe(TRUE), ScrollSwipe(FALSE)}}

\* The normalized elements of screen sid in the mode searched.
ElementsOf(sid, from_screencap) ==
    IF from_screencap THEN screencap_text(Screens[sid].ocr)
    ELSE Dumped[sid][1]

\* Screen sid shows an element whose label equals text.
ShowsLabel(sid, text, from_screencap) ==
    LET els == ElementsOf(sid, from_screencap)
    IN  \E k \in 1..Len(els) : els[k].text = text

\* C6: find_element_by_scroll(text, max_tries=n) takes at most n snapshots and
\* always ends; with the target's label on the first snapshot it returns after
\* one snapshot and no swipe; it ends with an element of the snapshot it took
\* last, or, after n snapshots and n swipes without one, with False: it never
\* raises.
C6_ScrollSearchBounded ==
    \A p \in {"c1"} : DirectSearch(p) =>
        /\ snapshots[p] <= op[p].max_tries
        /\ local[p].i <= op[p].max_tries
        /\ pc[p] = "fes_loop" =>
              /\ snapshots[p] = local[p].i
              /\ Len(log[p]) = local[p].i
              /\ ENABLED (FesIter(p) \/ FesExhausted(p))
        /\ pc[p] = "done" =>
              /\ \/ /\ result[p].kind = "element"
                    /\ InList(result[p].el, ElementsOf(screen, op[p].from_screencap))
                    /\ snapshots[p] = Len(log[p]) + 1
                 \/ /\ result[p] = RetBool(FALSE)
                    /\ snapshots[p] = op[p].max_tries
                    /\ Cardinality(ScrollSwipes(log[p])) = op[p].max_tries
              /\ Cardinality(ScrollSwipes(log[p])) = Len(log[p])
              /\ ( /\ op[p].max_tries >= 1
                   /\ ShowsLabel(local[p].first, op[p].text, op[p].from_screencap) )
                 => /\ result[p].kind = "element"
                    /\ snapshots[p] = 1
                    /\ log[p] = <<>>

\* C6's case: a search with the largest max_tries found nothing on any of its
\* snapshots and returned False.
C6_Witness ==
    /\ pc["c1"] = "done"
    /\ DirectSearch("c1")
    /\ op["c1"].max_tries = MaxTries
    /\ snapshots["c1"] = MaxTries
    /\ result["c1"] = RetBool(FALSE)

\* C7: every element find_element_by_scroll returns has a label equal to the
\* target text, in the UI-tree mode and in the OCR mode.
C7_ReturnedLabelIsExact ==
    \A p \in {"c1"} :
        (pc[p] = "done" /\ DirectSearch(p) /\ result[p].kind = "element")
        => result[p].el.text = op[p].text

\* The taps at the widget column among commands cmds.
WidgetTaps(cmds) ==
    {k \in 1..Len(cmds) : cmds[k].cmd = "tap" /\ cmds[k].args[1] = WidgetTapX}

\* y is the vertical centre of element e, to the pixel.
IsVerticalCentre(y, e) == 2 * y \in {e.y1 + e.y2 - 1, e.y1 + e.y2, e.y1 + e.y2 + 1}

\* C8: once its search is over, open_widget_by_name ends without raising: with
\* the widget not found it returns False and taps nothing at the widget
\* column; with the widget found it taps one point, at x = 580 and the vertical
\* centre of the element found.
C8_OpenWidgetReportsNotFound ==
    \A p \in {"c1"} :
        ( /\ pc[p] = "done"
          /\ op[p].name = "open_widget_by_name"
          /\ local[p].element.kind \in {"bool", "element"} )
        => /\ result[p].kind # "raise"
           /\ local[p].element.kind = "bool" =>
                 /\ result[p] = RetBool(FALSE)
                 /\ WidgetTaps(log[p]) = {}
           /\ local[p].element.kind = "element" =>
                 /\ Cardinality(WidgetTaps(log[p])) = 1
                 /\ \A k \in WidgetTaps(log[p]) :
                       IsVerticalCentre(log[p][k].args[2], local[p].element.el)

\* Thread p is in scroll_to_top_overview after init_app, and the marker is
\* still not on the screen.
MarkerAbsentAfterReset(p) ==
    /\ pc[p] \in {"sto_button", "sto_click"}
    /\ homeCheck[p] = "reinit"
    /\ ~is_overview(Screens[screen].tree)

\* C9: in scroll_to_top_overview, when the marker is absent the app is reset
\* in full, and when the marker is absent after the reset as well the
\* operation fails: its next step raises and taps nothing.
C9_ReverifiedAfterReset ==
    [][\A p \in {"c1"} :
          /\ (pc[p] = "sto_init_app" /\ pc'[p] # "sto_init_app") =>
                log'[p] = log[p] \o init_app
          /\ (MarkerAbsentAfterReset(p) /\ pc'[p] # pc[p]) =>
                /\ pc'[p] = "done"
                /\ result'[p].kind = "raise"
                /\ log'[p] = log[p]
      ]_clientVars

\* Thread p is at a step that needs the home screen: the search or the
\* snapshot of open_widget_by_name and get_account_current_app_balance, or the
\* refresh swipe of request_bank_update.
NeedsHome(p) ==
    \/ /\ op[p].name \in {"open_widget_by_name", "get_account_current_app_balance"}
       /\ pc[p] \in {"fes_loop", "owb_widget", "gab_elements"}
    \/ pc[p] = "rbu_swipe"

\* Thread p's call has seen the marker on a dump, or has reset the app in full
\* before anything else it sent.
HomeForced(p) ==
    \/ homeCheck[p] = "observed" /\ snapshots[p] >= 1
    \/ /\ homeCheck[p] = "reinit"
       /\ Len(log[p]) >= Len(init_app)
       /\ SubSeq(log[p], 1, Len(init_app)) = init_app

\* C10: every step that needs the home screen is preceded, in the same
\* operation, by a home check that saw the marker or reset the app in full.
C10_HomeForcedFirst ==
    \A p \in {"c1"} : NeedsHome(p) => HomeForced(p)

\* C10's case: the refresh swipe is about to be sent after a reset of the app.
C10_Witness ==
    /\ pc["c1"] = "rbu_swipe"
    /\ homeCheck["c1"] = "reinit"

\* update_account_balance was applied last.
Decided == applied.fn = "update_account_balance"
\* delta = target - observed, in cents.
Delta == applied.new_balance - applied.amount

\* C11: update_account_balance decides by the dead band: no transaction is
\* added iff |delta| <= threshold; a gain ("Gain", "Trading Gewinn") of delta
\* iff delta > threshold; a loss ("Loss", "Trading Verlust") of delta iff
\* delta < -threshold. Observed 1234.56 and target 1240.00 with threshold 10
\* give no transaction, target 1300.00 gives a gain of 65.44.
C11_DeadBand ==
    Decided =>
        /\ (value.transactions = <<>>) <=> (Abs(Delta) <= applied.threshhold)
        /\ (value.transactions = <<AddTransaction(Delta, "Gain", "Trading Gewinn")>>)
              <=> (Delta > applied.threshhold)
        /\ (value.transactions = <<AddTransaction(Delta, "Loss", "Trading Verlust")>>)
              <=> (Delta < -applied.threshhold)
        /\ Len(value.transactions) <= 1
        /\ (applied.amount = 123456 /\ applied.threshhold = 1000) =>
              /\ applied.new_balance = 124000 => value.transactions = <<>>
              /\ applied.new_balance = 130000 =>
                    value.transactions =
                        <<AddTransaction(6544, "Gain", "Trading Gewinn")>>

\* C11's case: a difference of exactly the threshold, which adds nothing.
C11_Witness ==
    /\ Decided
    /\ Abs(Delta) = applied.threshhold
    /\ applied.threshhold > 0
    /\ value.transactions = <<>>

\* get_account_current_app_balance was applied last, to the label given.
Extracted(label) ==
    /\ applied.fn = "get_account_current_app_balance"
    /\ applied.label = label

\* The call returned the amount of that many cents.
ReturnsCents(cents) ==
    /\ value.kind = "balance"
    /\ LET f == FloatOf(value.s)
       IN  IF f.den <= 100 THEN f.num * (100 \div f.den) = cents
           ELSE f.num = cents * (f.den \div 100)

\* C12 as stated: with "Main Account" followed by the label "1.234,56€",
\* get_account_current_app_balance extracts 1234.56.
C12_ExtractsExample == Extracted("1.234,56€") => ReturnsCents(123456)

\* C12 amended: the last two characters of the label are dropped whatever
\* they are, so "1.234,56 €" gives 1234.56 and "1.234,56€" gives 1234.5; the
\* element returned is the account's label.
C12_ExtractsAfterDroppingTwo ==
    /\ Extracted("1.234,56 €") => ReturnsCents(123456)
    /\ Extracted("1.234,56€") => ReturnsCents(123450)
    /\ (applied.fn = "get_account_current_app_balance" /\ value.kind = "balance")
          => value.el.text = applied.account_name

\* C12's case: the balance is read off the label "1.234,56 €".
C12_Witness == Extracted("1.234,56 €") /\ ReturnsCents(123456)

\* C13: an amount formatted with "." between the thousands and "," before the
\* decimals, followed by any two characters, parses back to the same amount.
C13_RoundTrip ==
    applied.fn = "parse_balance" => ReturnsCents(applied.amount)

\* C13's case: an amount with two thousands separators and a suffix that is
\* not the euro sign.
C13_Witness ==
    /\ applied.fn = "parse_balance"
    /\ applied.label = "1.234.567,56EU"
    /\ ReturnsCents(123456756)

\* C14: when the dump get_account_current_app_balance reads has no element
\* with the account's label, the call fails with ElementNotFound, and that is
\* the error a caller unpacking its result observes.
C14_NotFoundRaises ==
    [][(GabElements("c1") /\ ~ShowsLabel(screen, op["c1"].text, FALSE))
          => /\ result'["c1"] = Raise("ElementNotFound")
             /\ Unpacked(result'["c1"]) = Raise("ElementNotFound")]_vars

\* The sequences a normalization returned.
NormalizedSequences ==
    IF applied.fn = "get_list_of_elements" /\ value.exc = ""
    THEN {value.text_els, value.clickable_els}
    ELSE IF applied.fn = "screencap_text" THEN {value.elements}
    ELSE {}

\* C15: no sequence a normalization returns (the text list and the clickable
\* list of get_list_of_elements, the list of screencap_text) has an element
\* with an empty label.
C15_NoEmptyLabel ==
    \A els \in NormalizedSequences : \A k \in 1..Len(els) : els[k].text # ""

\* Elements d and e have the same label and the same bounds.
SameLabelAndBounds(d, e) ==
    /\ d.text = e.text
    /\ <<d.x1, d.y1, d.x2, d.y2>> = <<e.x1, e.y1, e.x2, e.y2>>

\* C16: no sequence a normalization returns has two elements with the same
\* label and the same bounds, whatever raw nodes they came from.
C16_NoDuplicates ==
    \A els \in NormalizedSequences :
        \A j, k \in 1..Len(els) : SameLabelAndBounds(els[j], els[k]) => j = k

\* s is a decimal integer: digits, after a minus sign or not.
IsDecimal(s) ==
    LET u == IF Len(s) > 0 /\ SubSeq(s, 1, 1) = "-" THEN SubSeq(s, 2, Len(s)) ELSE s
    IN  Len(u) > 0 /\ \A k \in 1..Len(u) : IsDigit(SubSeq(u, k, k))

\* s is two decimal integers with a comma between them.
IsDecimalPair(s) ==
    LET c == SplitBy(s, ",") IN Len(c) = 2 /\ IsDecimal(c[1]) /\ IsDecimal(c[2])

\* The text has the form "[x1,y1][x2,y2]".
HasBoundsForm(s) ==
    LET parts == SplitBy(s, "][")
    IN  /\ Len(parts) = 2
        /\ Len(parts[1]) > 0 /\ SubSeq(parts[1], 1, 1) = "["
        /\ Len(parts[2]) > 0 /\ SubSeq(parts[2], Len(parts[2]), Len(parts[2])) = "]"
        /\ IsDecimalPair(SubSeq(parts[1], 2, Len(parts[1])))
        /\ IsDecimalPair(DropLast(parts[2]))

\* The normalization of a node with these bounds gave the element at
\* (x1, y1, x2, y2).
ParsedTo(x1, y1, x2, y2) ==
    /\ value.exc = ""
    /\ Len(value.text_els) = 1
    /\ <<value.text_els[1].x1, value.text_els[1].y1,
         value.text_els[1].x2, value.text_els[1].y2>> = <<x1, y1, x2, y2>>

\* C17: a bounds text of the form "[x1,y1][x2,y2]" is read as
\* (x1, y1, x2, y2), "[10,20][110,220]" as (10, 20, 110, 220), and every text
\* not of that form makes the normalization fail.
C17_BoundsParseOrFail ==
    applied.fn = "normalize_bounds" =>
        /\ applied.bounds = "[10,20][110,220]" => ParsedTo(10, 20, 110, 220)
        /\ HasBoundsForm(applied.bounds) => value.exc = ""
        /\ ~HasBoundsForm(applied.bounds) => value.exc # ""

\* The step is one of update_api_account_balances by thread t that raises.
PassFails(t) ==
    /\ UabRequest(t) \/ UabAccount(t)
    /\ apc'[t] = Raised(t)

\* C18: a call of update_api_account_balances that fails leaves every balance
\* and last_api_update as they were when it began.
C18_FailedPassChangesNothing ==
    [][PassFails(Scheduler) =>
          /\ pass_start.running =>
                /\ balance' = pass_start.balance
                /\ last_api_update' = pass_start.last_api_update
          /\ ~pass_start.running =>
                UNCHANGED << balance, last_api_update >>]_vars

\* C19: within a pass, a failure on one account ends the work on that account
\* only: the loop over the API accounts goes on with the next one.
C19_FailureSkipsOneAccount ==
    [][(UabAccount(Scheduler) /\ idx[Scheduler] + 1 < Len(ApiAccounts))
          => /\ apc'[Scheduler] = "uab_account"
             /\ idx'[Scheduler] = idx[Scheduler] + 1]_vars

\* C20: without force_update, run leaves the wait and begins a pass; after
\* every pass it begins another one: the wait never lasts forever.
C20_PassesRecur ==
    /\ (apc[Scheduler] = "run_wait" /\ ~force_update)
          ~> (apc[Scheduler] = "run_init_app")
    /\ (apc[Scheduler] = "run_sleep") ~> (apc[Scheduler] = "run_init_app")

\* add_transaction was applied last, to an amount that is not 0.
Injected == applied.fn = "add_transaction" /\ applied.amount # 0

\* The texts among commands cmds, and the first of them.
TextsOf(cmds) == SelectSeq(cmds, LAMBDA c : c.cmd = "text")
AmountTyped == TextsOf(value.cmds)[1].s

\* s is a natural number in decimal, with no sign, separator or leading zero.
IsPlainNumeral(s) ==
    /\ Len(s) > 0
    /\ \A k \in 1..Len(s) : IsDigit(SubSeq(s, k, k))
    /\ Len(s) > 1 => SubSeq(s, 1, 1) # "0"

\* cmds without its k-th command.
Without(cmds, k) == SubSeq(cmds, 1, k - 1) \o SubSeq(cmds, k + 1, Len(cmds))

\* The commands for the amount of the other sign.
Mirrored == add_transaction(-applied.amount, applied.name, applied.category).cmds

\* C21: for every amount other than 0 the text add_transaction types for it is
\* the plain decimal numeral of the number of cents nearest to its magnitude,
\* and the commands for +a and for -a differ in the income/expense tap alone.
C21_AmountInCents ==
    Injected =>
        /\ IsPlainNumeral(AmountTyped)
        /\ 10 * DigitsValue(AmountTyped) - 5 < Abs(applied.amount)
        /\ Abs(applied.amount) < 10 * DigitsValue(AmountTyped) + 5
        /\ LET plus == IF applied.amount > 0 THEN value.cmds ELSE Mirrored
               minus == IF applied.amount > 0 THEN Mirrored ELSE value.cmds
           IN  \E k \in 1..Len(plus) :
                  plus[k] = Tap(80, 260) /\ minus = Without(plus, k)

\* C21's case: a loss of 65.44 is typed as 6544.
C21_Witness ==
    /\ Injected
    /\ applied.amount = -65440
    /\ AmountTyped = "6544"

RECURSIVE Steps(_)
\* The steps of commands cmds: "tap" for a tap, "text" for a run of texts and
\* key events.
Steps(cmds) ==
    IF Len(cmds) = 0 THEN <<>>
    ELSE IF cmds[1].cmd = "tap" THEN <<"tap">> \o Steps(Tail(cmds))
    ELSE IF Len(cmds) > 1 /\ cmds[2].cmd # "tap" THEN Steps(Tail(cmds))
    ELSE <<"text">> \o Steps(Tail(cmds))

\* The taps among commands cmds.
TapsOf(cmds) == SelectSeq(cmds, LAMBDA c : c.cmd = "tap")

\* The words typed in the k-th run of texts of cmds.
RECURSIVE RunOf(_, _)
RunOf(cmds, k) ==
    IF Len(cmds) = 0 THEN <<>>
    ELSE IF cmds[1].cmd = "tap"
         THEN RunOf(Tail(cmds), IF Len(cmds) > 1 /\ cmds[2].cmd # "tap" THEN k - 1 ELSE k)
    ELSE IF k = 0 /\ cmds[1].cmd = "text" THEN <<cmds[1].s>> \o RunOf(Tail(cmds), k)
    ELSE RunOf(Tail(cmds), k)

\* add_transaction was applied to amount 0: nothing is sent and False returned.
ZeroRefused ==
    (applied.fn = "add_transaction" /\ applied.amount = 0)
        => value.cmds = <<>> /\ value.ret = RetBool(FALSE)

\* C22 as stated: for every amount other than 0 the steps are, in this order,
\* the entry tap, the income/expense tap, the amount, the amount-confirm tap,
\* the label, the label-confirm tap, the category-field tap, the category, the
\* first-suggestion tap and the save tap; for 0 nothing is sent and the call
\* reports failure.
C22_TenSteps ==
    /\ Injected =>
          Steps(value.cmds) = <<"tap", "tap", "text", "tap", "text", "tap", "tap",
                                "text", "tap", "tap">>
    /\ ZeroRefused

\* C22 amended: the income/expense tap is sent for positive amounts only, and
\* a tap on the amount field comes before the amount in every case; the amount
\* is typed before the label, the label before the category, and the save tap
\* comes last.
C22_FixedOrder ==
    /\ Injected =>
          /\ TapsOf(value.cmds) =
                <<Tap(610, 1400)>>
                \o (IF applied.amount > 0 THEN <<Tap(80, 260)>> ELSE <<>>)
                \o <<Tap(350, 260), Tap(350, 425), Tap(350, 630), Tap(370, 100),
                     Tap(300, 240), Tap(350, 1460)>>
          /\ Steps(value.cmds) =
                <<"tap">> \o (IF applied.amount > 0 THEN <<"tap">> ELSE <<>>)
                \o <<"tap", "text", "tap", "text", "tap", "tap", "text", "tap", "tap">>
          /\ Len(RunOf(value.cmds, 1)) = 1
          /\ RunOf(value.cmds, 2) = SplitBy(applied.name, " ")
          /\ RunOf(value.cmds, 3) = SplitBy(applied.category, " ")
          /\ value.cmds[Len(value.cmds)] = Tap(350, 1460)
    /\ ZeroRefused

\* C22's case: a gain, with the income/expense tap, a label of two words and a
\* category of two words.
C22_Witness ==
    /\ Injected
    /\ applied.amount > 0
    /\ applied.name = "Rent paid"
    /\ Len(value.cmds) = 15

\* C23: the commands input_text sends for a text of k words separated by
\* single spaces are the k words in order with one SPACE key event between
\* every two consecutive words: k words and k - 1 key events, alternating.
C23_SpaceBetweenWords ==
    applied.fn = "input_text" =>
        LET words == SplitBy(applied.text, " ")
        IN  /\ Len(value.cmds) = 2 * Len(words) - 1
            /\ \A i \in 1..Len(words) : value.cmds[2 * i - 1] = Text(words[i])
            /\ \A i \in 1..(Len(words) - 1) :
                  value.cmds[2 * i] = KeyEvent("KEYCODE_SPACE")

\* The text elements of the dump get_account_current_app_balance was applied
\* to, and whether position k is the first that carries the account's label.
RowElements == get_list_of_elements(RowsOf(applied.texts))[1]
FirstLabelled(k) ==
    /\ RowElements[k].text = applied.account_name
    /\ \A j \in 1..(k - 1) : RowElements[j].text # applied.account_name

\* The amount, in cents, a row's text shows: -1 for an account label.
CentsShown(text) ==
    IF text = "1,00 €" THEN 100 ELSE IF text = "2,00 €" THEN 200 ELSE -1

\* C24: the balance get_account_current_app_balance returns is the one shown
\* by the element right after the first element of the normalized text
\* elements whose text is the account's label, and the element returned with
\* it is that first element with the account's label.
C24_ReadsElementAfterLabel ==
    applied.fn = "BalanceOf" =>
        \A k \in 1..Len(RowElements) :
            FirstLabelled(k) =>
                /\ value.kind = "balance" =>
                      /\ k < Len(RowElements)
                      /\ ReturnsCents(CentsShown(RowElements[k + 1].text))
                      /\ value.el = RowElements[k]
                /\ (k < Len(RowElements) /\ CentsShown(RowElements[k + 1].text) >= 0)
                      => value.kind = "balance"

\* C24's case: the account's label occurs twice, with different amounts after
\* it, and the first amount is returned with the first label.
C24_Witness ==
    /\ applied.fn = "BalanceOf"
    /\ applied.texts = <<"Depot", "Main Account", "1,00 €", "Main Account">>
    /\ ReturnsCents(100)
    /\ value.el = RowElements[2]
    /\ value.el # RowElements[4]

\* C25: a scroll_to_top_overview call that finds the button cached goes on to
\* the click without another snapshot and without changing the cache, and a
\* call that has to reset the app, the home marker being absent, leaves the
\* cache empty, so that the button is looked up again before it is clicked.
C25_CacheInvalidatedOnFailure ==
    [][/\ (StoButton("c1") /\ overview_button.set)
             => /\ overview_button' = overview_button
                /\ snapshots' = snapshots
       /\ StoInitApp("c1") => ~overview_button'.set]_vars

\* The update threads that run, and the handlers of /request_update that have
\* set the flag and are about to start one.
RunningUpdaters == Updaters \ Ended
Accepting == {h \in Handlers : apc[h] = "ru_start"}

\* C26: a /request_update that makes its check while an update started by a
\* request is in flight is answered busy with status 429 and starts nothing,
\* one that makes its check while none is in flight goes on to start a thread
\* and answer ok, and at no time do two such update threads run.
C26_OneUpdateThread ==
    [][/\ \A h \in Handlers :
             RuCheck(h) =>
                 IF RunningUpdaters # {} \/ Accepting # {}
                 THEN /\ response'[h] = JsonStatus("busy", 429)
                      /\ apc'[h] = "idle"
                 ELSE apc'[h] = "ru_set"
       /\ Cardinality(Updaters \ Ended') <= 1]_vars

\* C27: whenever an update thread started by /request_update ends, with
\* update_api_account_balances returned or with an exception raised in it,
\* request_update_done is True afterwards.
C27_FlagReleased ==
    [][\A u \in Updaters :
          (u \notin Ended /\ u \in Ended') => request_update_done']_vars

====
